---------------------------- MODULE Spec2Model ----------------------------
(***************************************************************************)
(* A model of the retrieval core of News_RAG_system:                       *)
(*   - FAISSManager (src/vector_db/faiss_manager.py): the vector index,    *)
(*     its parallel chunk_metadata list, build / add / search / save;      *)
(*   - DocumentRetriever (src/vector_db/retriever.py);                     *)
(*   - the embeddings table (src/embeddings/embedding_generator.py);       *)
(*   - TextChunker.chunk_by_sentences (src/text_processing/text_chunker.py)*)
(*   - NewsRAGGenerator (src/llm_integration/rag_generator.py).            *)
(*                                                                         *)
(* Python lists and numpy rows are 0-based; sequences here are 1-based.    *)
(* An index position p of the model is the code's idx = p - 1, and the     *)
(* code's "idx < len(chunk_metadata)" reads "p <= Len(chunk_metadata)".    *)
(***************************************************************************)
EXTENDS Integers, Sequences, FiniteSets, TLC

\* ------------------------------------------------------------------ bounds
MaxChunks == 2
MaxIndex == 2
MaxK == 2
MaxBatch == 2
MaxFaults == 1
MaxSentences == 4
MaxConcCalls == 2
MaxClock == 1

\* Articles in the articles table.
MaxArticles == 2

\* ----------------------------------------------------------------- helpers
Min(a, b) == IF a <= b THEN a ELSE b

Range(s) == {s[i] : i \in 1..Len(s)}

\* A Python dict is a function from its keys; {} is the function of no key.
EmptyDict == [key \in {} |-> 0]

\* dict.get(key, default)
Get(d, key, default) == IF key \in DOMAIN d THEN d[key] ELSE default

\* {**a, **b}: the keys of b override those of a.
Merge(a, b) ==
    [key \in (DOMAIN a) \cup (DOMAIN b) |-> IF key \in DOMAIN b THEN b[key] ELSE a[key]]

\* Strings whose characters matter are sequences of one-character strings.
LowerChar(c) ==
    CASE c = "B" -> "b"
      [] c = "C" -> "c"
      [] c = "N" -> "n"
      [] c = "J" -> "j"
      [] c = "F" -> "f"
      [] OTHER -> c

\* str.lower()
Lower(s) == [i \in 1..Len(s) |-> LowerChar(s[i])]

\* Python's "sub in s" on strings
Contains(sub, s) ==
    \E start \in 0..(Len(s) - Len(sub)) :
        \A i \in 1..Len(sub) : s[start + i] = sub[i]

\* ---------------------------------------------------------------- the data
\* chunk_id values; their order stands for the order of the chunk_id column.
ChunkIds == 1..MaxChunks

\* A chunk_id with no row in text_chunks (a caller of add_new_embeddings may
\* pass any id).
UnknownId == MaxChunks + 1

\* A chunk of an article stored with source NULL (the column is nullable).
NullSourceId == MaxChunks + 2

\* Python's None, SQL's NULL: no string, which is a sequence of characters.
None == <<"None">>

\* Embedding vectors (float32 rows of the index), all of one dimension.
Vectors == {<<0, 0>>, <<0, 1>>, <<1, 1>>}

VARIABLES
    mode,             \* "seq": one call at a time; "conc": calls interleave;
                      \* "chunk": a chunking run; "search": searches of a
                      \* given index; "rag": generate_response calls;
                      \* "embed": runs of the embedding job; "table": calls
                      \* on the embeddings table; "writers": a rebuild and
                      \* an add in two threads; "files": adds, saves and
                      \* loads; "process": runs of the text processor
    store,            \* the embeddings table: its rows
    index,            \* self.index: the vectors of the FAISS index, in order
    chunk_metadata,   \* self.chunk_metadata
    index_file,       \* the file at index_path
    metadata_file,    \* the file at metadata_path
    faults,           \* exceptions raised by the environment so far
    calls,            \* writer calls started so far, counted where calls interleave
    w_pc, w_op, w_embeddings, w_chunk_ids, w_i, w_ret,
                      \* the thread running build_index_from_database or
                      \* add_new_embeddings: position, locals, outcome
    w_snaps,          \* history: the (index, metadata) pair the running
                      \* writer call started from and the one it is producing
    r_pc, r_op, r_args, r_cands, r_i, r_results, r_ret,
                      \* the thread running search_similar or a retrieval
    r_snaps,          \* history: complete (index, metadata) pairs that were
                      \* current at some point of the running search
    r_overlap,        \* history: the writer calls the running search overlapped
    r_first,          \* history: what the search before returned and searched,
                      \* when this search repeats it with the same arguments
    c_cfg,            \* the TextChunker: chunk_size, overlap_size, min_chunk_size
    c_pc, c_text, c_article_id, c_sentences, c_i, c_chunks, c_current_chunk,
    c_current_sentences, c_chunk_index, c_start_pos,
                      \* a chunk_by_sentences call: position, arguments, locals
    c_closes,         \* history: per chunk closed inside the loop, the overlap
                      \* sentences computed for it and the sentence that followed
    c_first,          \* history: what the call before returned, when this
                      \* call repeats it with the same text and article_id
    api_key,          \* NewsRAGGenerator.api_key is set
    g_pc, g_args, g_retrieval, g_response,
                      \* a generate_response call: position, arguments,
                      \* retrieval_result, the RAGResponse returned
    g_backend,        \* history: what the call did with the generation backend
    g_stages,         \* history: the stages the call has passed, in order
    batch_size,       \* EmbeddingGenerator.batch_size
    e_pc, e_chunks, e_i, e_total,
                      \* a generate_embeddings_for_unprocessed_chunks call:
                      \* position, unprocessed_chunks, i, total_processed
    e_log,            \* history: per batch the run attempted, in order, where
                      \* it starts in unprocessed_chunks and whether it raised
    clock,            \* CURRENT_TIMESTAMP of the database
    t_call,           \* history: the arguments of the last _store_embeddings_batch
                      \* and whether the call before it had the same
    t_last,           \* history: chunk_id -> the vector last passed for it
    t_got,            \* the last get_embedding_by_chunk_id call and its result
    a_pc, a_embeddings, a_chunk_ids, a_i,
                      \* an add_new_embeddings call of a second thread:
                      \* position, arguments, loop position
    articles,         \* the articles table: id -> content, processed
    text_chunks,      \* the text_chunks table: its committed rows
    p_pc, p_articles, p_i, p_chunks, p_count,
                      \* a process_unprocessed_articles call: position, the
                      \* ids fetched, loop position, chunks, processed_count
    p_stored          \* history: what the last store_chunks commit found in
                      \* text_chunks before it wrote

indexVars == <<index, chunk_metadata>>
fileVars == <<index_file, metadata_file>>
writerVars == <<w_pc, w_op, w_embeddings, w_chunk_ids, w_i, w_ret, w_snaps>>
readerVars == <<r_pc, r_op, r_args, r_cands, r_i, r_results, r_ret, r_snaps, r_overlap,
                r_first>>
chunkerVars == <<c_cfg, c_pc, c_text, c_article_id, c_sentences, c_i, c_chunks,
                 c_current_chunk, c_current_sentences, c_chunk_index, c_start_pos,
                 c_closes, c_first>>
ragVars == <<api_key, g_pc, g_args, g_retrieval, g_response, g_backend, g_stages>>
embedVars == <<batch_size, e_pc, e_chunks, e_i, e_total, e_log>>
tableVars == <<clock, t_call, t_last, t_got>>
adderVars == <<a_pc, a_embeddings, a_chunk_ids, a_i>>
processVars == <<articles, text_chunks, p_pc, p_articles, p_i, p_chunks, p_count, p_stored>>
vars == <<mode, calls, store, faults, indexVars, fileVars, writerVars, readerVars, chunkerVars,
          ragVars, embedVars, tableVars, adderVars, processVars>>


\* ------------------------------------------- text_chunks JOIN articles rows
SourceOf(id) == IF id % 2 = 1 THEN <<"B", "B", "C">> ELSE <<"c", "n", "n">>

PublishedAtOf(id) == IF id <= 1 THEN <<"J", "a", "n">> ELSE <<"F", "e", "b">>

\* _get_chunk_info: the joined row of a chunk_id, or the two-key fallback.
GetChunkInfo(id) ==
    IF id \in ChunkIds
    THEN [chunk_id |-> id, article_id |-> id, content |-> <<"t", id>>,
          chunk_index |-> 0, article_title |-> <<"T", id>>,
          source |-> SourceOf(id), published_at |-> PublishedAtOf(id),
          url |-> <<"u", id>>]
    ELSE IF id = NullSourceId
    THEN [chunk_id |-> id, article_id |-> id, content |-> <<"t", id>>,
          chunk_index |-> 0, article_title |-> <<"T", id>>,
          source |-> None, published_at |-> PublishedAtOf(id),
          url |-> <<"u", id>>]
    ELSE [chunk_id |-> id, content |-> <<"Unknown">>]

\* ----------------------------------------------------- the embeddings table
RECURSIVE SortedIds(_)
\* ORDER BY chunk_id
SortedIds(S) ==
    IF S = {} THEN <<>>
    ELSE LET m == CHOOSE x \in S : \A y \in S : x <= y
         IN  <<m>> \o SortedIds(S \ {m})

\* self.embedding_dim, the dimension of the model's vectors
EmbeddingDim == 2

\* self.model_name
ModelName == "all-MiniLM-L6-v2"

\* the size of a float32
BytesPerFloat == 4

\* A float64 number that is no float32. The float32 of the model has a
\* significand of one bit: 0, 1, 2 and 4 are exact, 3 lies between two of them.
InexactValue == 3

\* astype(np.float32): an inexact number is rounded to the neighbour with the
\* even significand.
AsFloat32(x) == IF x = InexactValue THEN InexactValue + 1 ELSE x

RECURSIVE ToBytes(_)
\* embedding.astype(np.float32).tobytes(): BytesPerFloat bytes per component
ToBytes(v) ==
    IF v = <<>> THEN <<>>
    ELSE <<AsFloat32(Head(v))>> \o [i \in 1..(BytesPerFloat - 1) |-> 0] \o ToBytes(Tail(v))

\* np.frombuffer(embedding_bytes, dtype=np.float32).reshape(-1)
FromBuffer(bytes) ==
    [i \in 1..(Len(bytes) \div BytesPerFloat) |-> bytes[(i - 1) * BytesPerFloat + 1]]

\* the row _store_embeddings_batch writes; created_at is the column default
EmbeddingRow(chunk_id, embedding, now) ==
    [chunk_id |-> chunk_id, embedding |-> ToBytes(embedding),
     embedding_dim |-> EmbeddingDim, model_name |-> ModelName, created_at |-> now]

\* INSERT without OR REPLACE and without the primary key
InsertKeepingOld(st, row) == st \cup {row}

\* INSERT OR REPLACE on the primary key chunk_id
InsertOrReplace(st, row) == {r \in st : r.chunk_id # row.chunk_id} \cup {row}

StoredIds(st) == {r.chunk_id : r \in st}

RowOf(st, id) == CHOOSE r \in st : r.chunk_id = id

\* get_all_embeddings: (embeddings, chunk_ids), both in chunk_id order
GetAllChunkIds(st) == SortedIds(StoredIds(st))

GetAllEmbeddings(st) ==
    LET ids == GetAllChunkIds(st)
    IN  [i \in 1..Len(ids) |-> FromBuffer(RowOf(st, ids[i]).embedding)]

\* get_embedding_by_chunk_id
GetEmbeddingByChunkId(st, id) ==
    IF id \in StoredIds(st) THEN FromBuffer(RowOf(st, id).embedding) ELSE None

\* _store_embeddings_batch: INSERT OR REPLACE of zip(chunk_ids, embeddings);
\* a later pair of the batch replaces an earlier one with the same chunk_id.
RECURSIVE StoreEmbeddingsBatch(_, _, _, _)
StoreEmbeddingsBatch(st, ids, embs, now) ==
    IF ids = <<>> \/ embs = <<>> THEN st
    ELSE StoreEmbeddingsBatch(InsertOrReplace(st, EmbeddingRow(Head(ids), Head(embs), now)),
                              Tail(ids), Tail(embs), now)

\* ------------------------------------------------------------ search_similar
RECURSIVE SumSq(_, _, _)
SumSq(a, b, i) ==
    IF i > Len(a) THEN 0 ELSE (a[i] - b[i]) * (a[i] - b[i]) + SumSq(a, b, i + 1)

\* The squared L2 distance IndexFlatL2 reports.
L2Sq(a, b) == SumSq(a, b, 1)

\* no earlier search to compare with
NoFirstSearch == [ran |-> FALSE, results |-> <<>>, index |-> <<>>, chunk_metadata |-> <<>>]

\* Nearer with equal distances ordered the other way round in a search that
\* follows another
NearerUnstable(idx, q, p1, p2) ==
    \/ L2Sq(idx[p1], q) < L2Sq(idx[p2], q)
    \/ (L2Sq(idx[p1], q) = L2Sq(idx[p2], q) /\ IF r_pc = "returned" THEN p1 >= p2 ELSE p1 <= p2)

\* Candidate order of index.search: nearest first, equal distances by position.
Nearer(idx, q, p1, p2) ==
    \/ L2Sq(idx[p1], q) < L2Sq(idx[p2], q)
    \/ (L2Sq(idx[p1], q) = L2Sq(idx[p2], q) /\ p1 <= p2)

RECURSIVE TopK(_, _, _, _)
TopK(idx, q, k, taken) ==
    IF k <= 0 THEN <<>>
    ELSE LET avail == (1..Len(idx)) \ taken
         IN  IF avail = {}
             THEN <<[distance |-> 0, idx |-> -1]>> \o TopK(idx, q, k - 1, taken)
             ELSE LET best == CHOOSE p \in avail : \A p2 \in avail : Nearer(idx, q, p, p2)
                  IN  <<[distance |-> L2Sq(idx[best], q), idx |-> best]>>
                          \o TopK(idx, q, k - 1, taken \cup {best})

\* self.index.search(query_embedding, k): (distances[0], indices[0]) zipped;
\* a missing neighbour has idx -1.
FaissSearch(idx, q, k) == TopK(idx, q, k, {})

\* similarity_score = 1 / (1 + distance), kept as the exact fraction.
Similarity(distance) == [num |-> 1, den |-> 1 + distance]

FracLess(a, b) == a.num * b.den < b.num * a.den

\* score_threshold: None, or a number num/den.
NoThreshold == [set |-> FALSE, num |-> 0, den |-> 1]

Threshold(n, d) == [set |-> TRUE, num |-> n, den |-> d]

\* BelowThreshold with the comparison turned round
BelowThresholdFlipped(sim, thr) == thr.set /\ thr.num # 0 /\ FracLess(thr, sim)

\* "if score_threshold and similarity_score < score_threshold: continue"
\* (None and 0.0 are both falsy)
BelowThreshold(sim, thr) == thr.set /\ thr.num # 0 /\ FracLess(sim, thr)

\* RankOf without the "+ 1"
RankOfZeroBased(p) == p - 1

\* The rank a candidate gets: enumerate()'s 0-based i, plus one.
RankOf(p) == (p - 1) + 1

\* One turn of the loop of search_similar over candidate p of cands.
SearchLoopStep(results, cands, p, meta, thr) ==
    LET cand == cands[p]
        sim == Similarity(cand.distance)
    IN  IF cand.idx = -1 THEN results
        ELSE IF BelowThreshold(sim, thr) THEN results
        ELSE LET metadata == IF cand.idx <= Len(meta) THEN meta[cand.idx] ELSE EmptyDict
             IN  Append(results,
                        Merge([rank |-> RankOf(p), similarity_score |-> sim,
                               distance |-> cand.distance], metadata))

RECURSIVE SearchLoop(_, _, _, _, _)
SearchLoop(results, cands, p, meta, thr) ==
    IF p > Len(cands) THEN results
    ELSE SearchLoop(SearchLoopStep(results, cands, p, meta, thr), cands, p + 1, meta, thr)

\* search_similar on one (index, metadata) pair (a search for k = 0
\* neighbours, where faiss accepts it, has no candidate).
SearchSimilar(idx, meta, q, k, thr) ==
    IF Len(idx) = 0 THEN <<>>
    ELSE SearchLoop(<<>>, FaissSearch(idx, q, Min(k, Len(idx))), 1, meta, thr)


\* ------------------------------------------------------------------ retriever
\* The loop of retrieve_by_filters over all_results: keep the hits that pass
\* both filters, stop at top_k of them. A filter that is None or "" is <<>>.
RECURSIVE FilterResults(_, _, _, _, _)
FilterResults(all_results, p, source_filter, date_filter, top_k) ==
    IF p > Len(all_results) \/ top_k <= 0 THEN <<>>
    ELSE LET result == all_results[p]
         IN  IF source_filter # <<>>
                /\ ~Contains(Lower(source_filter), Lower(Get(result, "source", <<>>)))
             THEN FilterResults(all_results, p + 1, source_filter, date_filter, top_k)
             ELSE IF date_filter # <<>>
                     /\ ~Contains(date_filter, Get(result, "published_at", <<>>))
             THEN FilterResults(all_results, p + 1, source_filter, date_filter, top_k)
             ELSE <<result>> \o
                  FilterResults(all_results, p + 1, source_filter, date_filter, top_k - 1)

\* retrieve_relevant_documents' default score_threshold = 0.3
DefaultScoreThreshold == Threshold(3, 10)

\* doc_info of retrieve_relevant_documents with include_sources
DocInfo(result) ==
    [rank |-> result.rank,
     content |-> Get(result, "content", <<>>),
     similarity_score |-> result.similarity_score,
     chunk_id |-> Get(result, "chunk_id", -1),
     article_title |-> Get(result, "article_title", <<"Unknown">>),
     source |-> Get(result, "source", <<"Unknown">>),
     article_id |-> Get(result, "article_id", -1),
     published_at |-> Get(result, "published_at", <<>>),
     url |-> Get(result, "url", <<>>)]

\* str() of a value inside an f-string
Str(x) == IF x = None THEN <<"N", "o", "n", "e">> ELSE x

\* line 71: f"{source} - {article_title}"
SourceLine(result) ==
    Str(Get(result, "source", <<"Unknown">>)) \o <<" ", "-", " ">>
        \o Str(Get(result, "article_title", <<"Unknown">>))

\* the set `sources` after the loop (lines 51, 71)
SourcesOf(search_results) ==
    {SourceLine(search_results[i]) : i \in 1..Len(search_results)}

\* list(a_set): the elements once each, in the set's iteration order, which
\* for strings depends on the process's hash seed
Orderings(S) ==
    {f \in [1..Cardinality(S) -> S] : \A i, j \in 1..Cardinality(S) : i # j => f[i] # f[j]}

RECURSIVE ContextFrom(_, _)
\* lines 76-79: "\n\n".join(f"[Document {i+1}]: {content}")
ContextFrom(search_results, p) ==
    IF p > Len(search_results) THEN <<>>
    ELSE (IF p > 1 THEN <<"\n\n">> ELSE <<>>)
         \o <<"[Document ", p, "]: ">> \o Get(search_results[p], "content", <<>>)
         \o ContextFrom(search_results, p + 1)

ContextText(search_results) == ContextFrom(search_results, 1)

FracAdd(a, b) == [num |-> a.num * b.den + b.num * a.den, den |-> a.den * b.den]

RECURSIVE SumSimilarity(_, _)
SumSimilarity(docs, p) ==
    IF p > Len(docs) THEN [num |-> 0, den |-> 1]
    ELSE FracAdd(docs[p].similarity_score, SumSimilarity(docs, p + 1))

\* line 90: sum(similarity_score) / len(retrieved_docs)
AvgSimilarity(docs) ==
    IF docs = <<>> THEN [num |-> 0, den |-> 1]
    ELSE [num |-> SumSimilarity(docs, 1).num, den |-> SumSimilarity(docs, 1).den * Len(docs)]

RetrievedDocs(search_results) ==
    [i \in 1..Len(search_results) |-> DocInfo(search_results[i])]

\* retrieve_relevant_documents, given what search_by_text returned and the
\* order in which list(sources) listed the set
RetrieveRelevantDocuments(search_results, top_k, thr, sources) ==
    IF search_results = <<>>
    THEN [retrieved_documents |-> <<>>, sources |-> <<>>, context_text |-> <<>>,
          total_results |-> 0]
    ELSE
    [retrieved_documents |-> RetrievedDocs(search_results),
     sources |-> sources,
     context_text |-> ContextText(search_results),
     total_results |-> Len(search_results),
     top_k_requested |-> top_k,
     score_threshold |-> thr,
     avg_similarity |-> AvgSimilarity(RetrievedDocs(search_results))]

\* ---------------------------------------------------------------- the files
NoFile == [exists |-> FALSE, data |-> <<>>]

FileOf(data) == [exists |-> TRUE, data |-> data]

\* ------------------------------------------------------------------- writer
NoRet == [outcome |-> "none", value |-> 0]

WriterActive == w_pc \notin {"idle", "returned"}

ReaderActive == r_pc \notin {"idle", "returned"}

Pair(idx, meta) == [index |-> idx, meta |-> meta]

MetaOf(ids) == [i \in 1..Len(ids) |-> GetChunkInfo(ids[i])]

\* What a writer call does to the history of a running search.
NoteWrite(op, target) ==
    IF ReaderActive
    THEN /\ r_overlap' = r_overlap \cup {op}
         /\ r_snaps' = r_snaps \cup {target}
    ELSE UNCHANGED <<r_overlap, r_snaps>>

readerLocals == <<r_pc, r_op, r_args, r_cands, r_i, r_results, r_ret, r_first>>

\* Where calls interleave, the writer calls are counted and capped.
CountCall ==
    IF mode \in {"conc", "writers"}
    THEN calls < MaxConcCalls /\ calls' = calls + 1
    ELSE calls' = calls

\* build_index_from_database, lines 36-42: read the table; nothing to do if empty
BuildCall ==
    /\ mode \in {"seq", "conc", "writers"}
    /\ w_pc = "idle"
    /\ mode = "seq" => r_pc = "idle"
    /\ CountCall
    /\ w_op' = "build"
    /\ w_embeddings' = GetAllEmbeddings(store)
    /\ w_chunk_ids' = GetAllChunkIds(store)
    /\ w_i' = 0
    /\ w_snaps' = {Pair(index, chunk_metadata),
                   Pair(GetAllEmbeddings(store), MetaOf(GetAllChunkIds(store)))}
    /\ IF Len(GetAllEmbeddings(store)) = 0
       THEN /\ w_pc' = "returned"
            /\ w_ret' = [outcome |-> "empty", value |-> 0]
            /\ UNCHANGED <<r_overlap, r_snaps>>
       ELSE /\ w_pc' = "reset_index"
            /\ w_ret' = NoRet
            /\ NoteWrite("build", Pair(GetAllEmbeddings(store), MetaOf(GetAllChunkIds(store))))
    /\ UNCHANGED <<ragVars, embedVars, tableVars, adderVars, processVars, mode, store, faults, indexVars, fileVars, readerLocals, chunkerVars>>

\* line 45: self.index = faiss.IndexFlatL2(...)
BuildResetIndex ==
    /\ w_pc = "reset_index"
    /\ index' = <<>>
    /\ w_pc' = "reset_meta"
    /\ UNCHANGED <<ragVars, embedVars, tableVars, adderVars, processVars, mode, calls, store, faults, chunk_metadata, fileVars, w_op, w_embeddings,
                   w_chunk_ids, w_i, w_ret, w_snaps, readerVars, chunkerVars>>

\* line 46: self.chunk_metadata = []
BuildResetMeta ==
    /\ w_pc = "reset_meta"
    /\ chunk_metadata' = <<>>
    /\ w_pc' = "add"
    /\ UNCHANGED <<ragVars, embedVars, tableVars, adderVars, processVars, mode, calls, store, faults, index, fileVars, w_op, w_embeddings,
                   w_chunk_ids, w_i, w_ret, w_snaps, readerVars, chunkerVars>>

\* add_new_embeddings, lines 154-155: the length check
AddCall(ids, embs) ==
    /\ mode \in {"seq", "conc", "files"}
    /\ w_pc = "idle"
    /\ mode = "seq" => r_pc = "idle"
    /\ CountCall
    /\ Len(index) + Len(embs) <= MaxIndex
    /\ w_op' = "add"
    /\ w_i' = 0
    /\ IF Len(ids) # Len(embs)
       THEN /\ w_pc' = "returned"
            /\ w_ret' = [outcome |-> "raised", value |-> 0]
            /\ w_embeddings' = <<>>
            /\ w_chunk_ids' = <<>>
            /\ w_snaps' = {Pair(index, chunk_metadata)}
            /\ UNCHANGED <<r_overlap, r_snaps>>
       ELSE /\ w_pc' = "add"
            /\ w_ret' = NoRet
            /\ w_embeddings' = embs
            /\ w_chunk_ids' = ids
            /\ w_snaps' = {Pair(index, chunk_metadata),
                           Pair(index \o embs, chunk_metadata \o MetaOf(ids))}
            /\ NoteWrite("add", Pair(index \o embs, chunk_metadata \o MetaOf(ids)))
    /\ UNCHANGED <<ragVars, embedVars, tableVars, adderVars, processVars, mode, store, faults, indexVars, fileVars, readerLocals, chunkerVars>>

\* lines 49-50 and 158-159: self.index.add(embeddings_array)
IndexAdd ==
    /\ w_pc = "add"
    /\ index' = index \o w_embeddings
    /\ w_pc' = "meta"
    /\ w_i' = 1
    /\ UNCHANGED <<ragVars, embedVars, tableVars, adderVars, processVars, mode, calls, store, faults, chunk_metadata, fileVars, w_op, w_embeddings,
                   w_chunk_ids, w_ret, w_snaps, readerVars, chunkerVars>>

\* lines 53-55 and 162-164: one turn of the loop, the lookup succeeding
MetaLookup ==
    /\ w_pc = "meta"
    /\ w_i <= Len(w_chunk_ids)
    /\ chunk_metadata' = Append(chunk_metadata, GetChunkInfo(w_chunk_ids[w_i]))
    /\ w_i' = w_i + 1
    /\ w_pc' = IF w_i = Len(w_chunk_ids) THEN "save" ELSE "meta"
    /\ UNCHANGED <<ragVars, embedVars, tableVars, adderVars, processVars, mode, calls, store, faults, index, fileVars, w_op, w_embeddings,
                   w_chunk_ids, w_ret, w_snaps, readerVars, chunkerVars>>

\* The same turn with _get_chunk_info raising (sqlite3 error): the exception
\* leaves build_index_from_database / add_new_embeddings.
MetaLookupRaises ==
    /\ w_pc = "meta"
    /\ w_i <= Len(w_chunk_ids)
    /\ faults < MaxFaults
    /\ faults' = faults + 1
    /\ w_pc' = "returned"
    /\ w_ret' = [outcome |-> "raised", value |-> 0]
    /\ UNCHANGED <<ragVars, embedVars, tableVars, adderVars, processVars, mode, calls, store, indexVars, fileVars, w_op, w_embeddings,
                   w_chunk_ids, w_i, w_snaps, readerVars, chunkerVars>>

\* save_index (lines 171-184), then the return of the caller. An exception
\* while writing is caught and logged: "index" fails before anything is
\* written, "metadata" after the index file was.
SaveIndex(failure) ==
    /\ w_pc = "save"
    /\ failure # "none" => faults < MaxFaults
    /\ faults' = IF failure = "none" THEN faults ELSE faults + 1
    /\ index_file' = IF failure = "index" THEN index_file ELSE FileOf(index)
    /\ metadata_file' = IF failure = "none" THEN FileOf(chunk_metadata) ELSE metadata_file
    /\ w_pc' = "returned"
    /\ w_ret' = [outcome |-> "ok", value |-> IF w_op = "build" THEN Len(index) ELSE 0]
    /\ UNCHANGED <<ragVars, embedVars, tableVars, adderVars, processVars, mode, calls, store, indexVars, w_op, w_embeddings, w_chunk_ids, w_i,
                   w_snaps, readerVars, chunkerVars>>

\* load_index as one step, when no other call runs. Both files exist and
\* read_index or pickle.load raises (the file is unreadable): the except
\* branch resets the index; both are read: they become the index; one is
\* missing: nothing is touched.
LoadIndex(failure) ==
    /\ mode \in {"seq", "files"}
    /\ w_pc = "idle"
    /\ r_pc = "idle"
    /\ failure # "none" => (faults < MaxFaults /\ index_file.exists /\ metadata_file.exists)
    /\ faults' = IF failure = "none" THEN faults ELSE faults + 1
    /\ w_op' = "load"
    /\ w_pc' = "returned"
    /\ IF index_file.exists /\ metadata_file.exists
       THEN IF failure = "none"
            THEN /\ index' = index_file.data
                 /\ chunk_metadata' = metadata_file.data
                 /\ w_ret' = [outcome |-> "loaded", value |-> 1]
            ELSE /\ index' = <<>>
                 /\ chunk_metadata' = <<>>
                 /\ w_ret' = [outcome |-> "unreadable", value |-> 0]
       ELSE /\ UNCHANGED indexVars
            /\ w_ret' = [outcome |-> "missing", value |-> 0]
    /\ UNCHANGED <<ragVars, embedVars, tableVars, adderVars, processVars, mode, calls, store, fileVars,
                   w_embeddings, w_chunk_ids, w_i, w_snaps, readerVars, chunkerVars>>

\* The caller takes the outcome.
WriterReturn ==
    /\ w_pc = "returned"
    /\ w_pc' = "idle"
    /\ w_op' = "none"
    /\ w_embeddings' = <<>>
    /\ w_chunk_ids' = <<>>
    /\ w_i' = 0
    /\ w_ret' = NoRet
    /\ w_snaps' = {}
    /\ UNCHANGED <<ragVars, embedVars, tableVars, adderVars, processVars, mode, calls, store, faults, indexVars, fileVars, readerVars, chunkerVars>>

\* ------------------------------------ add_new_embeddings in a second thread
\* add_new_embeddings called by a thread of its own while the other thread
\* may be inside build_index_from_database (lines 154-155 passed: the lengths
\* are equal)
AdderCall(ids, embs) ==
    /\ mode = "writers"
    /\ a_pc = "idle"
    /\ Len(ids) = Len(embs)
    /\ CountCall
    /\ a_chunk_ids' = ids
    /\ a_embeddings' = embs
    /\ a_i' = 0
    /\ a_pc' = "add"
    /\ UNCHANGED <<ragVars, embedVars, tableVars, processVars, mode, store, faults, indexVars,
                   fileVars, writerVars, readerVars, chunkerVars>>

\* lines 158-159: self.index.add(embeddings_array)
AdderIndexAdd ==
    /\ a_pc = "add"
    /\ index' = index \o a_embeddings
    /\ a_i' = 1
    /\ a_pc' = "meta"
    /\ UNCHANGED <<ragVars, embedVars, tableVars, processVars, mode, calls, store, faults, chunk_metadata,
                   fileVars, writerVars, readerVars, chunkerVars, a_embeddings, a_chunk_ids>>

\* lines 162-164: one turn of the loop
AdderMetaLookup ==
    /\ a_pc = "meta"
    /\ a_i <= Len(a_chunk_ids)
    /\ chunk_metadata' = Append(chunk_metadata, GetChunkInfo(a_chunk_ids[a_i]))
    /\ a_i' = a_i + 1
    /\ a_pc' = IF a_i = Len(a_chunk_ids) THEN "save" ELSE "meta"
    /\ UNCHANGED <<ragVars, embedVars, tableVars, processVars, mode, calls, store, faults, index,
                   fileVars, writerVars, readerVars, chunkerVars, a_embeddings, a_chunk_ids>>

\* line 169: save_index, then the return
AdderSave ==
    /\ a_pc = "save"
    /\ index_file' = FileOf(index)
    /\ metadata_file' = FileOf(chunk_metadata)
    /\ a_pc' = "returned"
    /\ UNCHANGED <<ragVars, embedVars, tableVars, processVars, mode, calls, store, faults, indexVars,
                   writerVars, readerVars, chunkerVars, a_embeddings, a_chunk_ids, a_i>>

\* Both threads have returned and are joined.
WritersJoin ==
    /\ mode = "writers"
    /\ w_pc = "returned"
    /\ a_pc = "returned"
    /\ w_pc' = "idle"
    /\ w_op' = "none"
    /\ w_embeddings' = <<>>
    /\ w_chunk_ids' = <<>>
    /\ w_i' = 0
    /\ w_ret' = NoRet
    /\ w_snaps' = {}
    /\ a_pc' = "idle"
    /\ a_embeddings' = <<>>
    /\ a_chunk_ids' = <<>>
    /\ a_i' = 0
    /\ UNCHANGED <<ragVars, embedVars, tableVars, processVars, mode, calls, store, faults, indexVars,
                   fileVars, readerVars, chunkerVars>>

\* self.model.encode(batch_texts): the embedding of a chunk's content
EmbeddingOf(id) ==
    CASE id % 3 = 1 -> <<0, 0>>
      [] id % 3 = 2 -> <<0, 1>>
      [] OTHER -> <<1, 1>>

\* _get_unprocessed_chunks: the chunks with no embedding yet, by chunk_id
UnprocessedChunks(st) == SortedIds(ChunkIds \ StoredIds(st))

\* generate_embeddings_for_unprocessed_chunks, one batch (lines 75-87): the
\* batch starting at position first of the unprocessed chunks is encoded and
\* stored.
StoreBatch(first, size) ==
    /\ mode = "seq"
    /\ first + size - 1 <= Len(UnprocessedChunks(store))
    /\ LET ids == SubSeq(UnprocessedChunks(store), first, first + size - 1)
       IN  store' = StoreEmbeddingsBatch(store, ids,
                                         [i \in 1..Len(ids) |-> EmbeddingOf(ids[i])], clock)
    /\ UNCHANGED <<ragVars, embedVars, tableVars, adderVars, processVars, mode, calls, faults, indexVars, fileVars, writerVars, readerVars, chunkerVars>>


\* ------------------------------------------------------------------- reader
QueryVectors == Vectors

Thresholds == {NoThreshold, Threshold(0, 1), Threshold(1, 2)}

SearchArgs(q, k, thr) == [q |-> q, k |-> k, score_threshold |-> thr]

\* search_similar called while other calls may run: the call itself
SearchCall(q, k, thr) ==
    /\ mode = "conc"
    /\ r_pc = "idle"
    /\ r_pc' = "check"
    /\ r_op' = "search"
    /\ r_args' = SearchArgs(q, k, thr)
    /\ r_snaps' = IF WriterActive THEN w_snaps ELSE {Pair(index, chunk_metadata)}
    /\ r_overlap' = IF WriterActive THEN {w_op} ELSE {}
    /\ UNCHANGED <<ragVars, embedVars, tableVars, adderVars, processVars, mode, calls, store, faults, indexVars, fileVars, writerVars,
                   r_cands, r_i, r_results, r_ret, r_first, chunkerVars>>

\* lines 100-102: if self.index.ntotal == 0: return []
SearchCheck ==
    /\ r_pc = "check"
    /\ IF Len(index) = 0
       THEN r_pc' = "returned" /\ r_ret' = "ok"
       ELSE r_pc' = "search" /\ r_ret' = r_ret
    /\ UNCHANGED <<ragVars, embedVars, tableVars, adderVars, processVars, mode, calls, store, faults, indexVars, fileVars, writerVars,
                   r_op, r_args, r_cands, r_i, r_results, r_snaps, r_overlap, r_first, chunkerVars>>

\* line 111: self.index.search(query_embedding, min(k, self.index.ntotal)).
\* With no candidate the loop has no turn and the call returns [].
SearchFaiss ==
    /\ r_pc = "search"
    /\ LET cands == FaissSearch(index, r_args.q, Min(r_args.k, Len(index)))
       IN  /\ r_cands' = cands
           /\ IF Len(cands) = 0
              THEN r_pc' = "returned" /\ r_ret' = "ok"
              ELSE r_pc' = "loop" /\ r_ret' = r_ret
    /\ r_i' = 1
    /\ UNCHANGED <<ragVars, embedVars, tableVars, adderVars, processVars, mode, calls, store, faults, indexVars, fileVars, writerVars,
                   r_op, r_args, r_results, r_snaps, r_overlap, r_first, chunkerVars>>

\* line 111 when the index was emptied after the check of line 100: a search
\* for 0 neighbours, which the faiss builds that check k > 0 refuse.
SearchFaissRaises ==
    /\ r_pc = "search"
    /\ Min(r_args.k, Len(index)) = 0
    /\ r_pc' = "returned"
    /\ r_ret' = "raised"
    /\ UNCHANGED <<ragVars, embedVars, tableVars, adderVars, processVars, mode, calls, store, faults, indexVars, fileVars, writerVars,
                   r_op, r_args, r_cands, r_i, r_results, r_snaps, r_overlap, r_first, chunkerVars>>

\* lines 114-135: one turn of the loop over the candidates
SearchLoopTurn ==
    /\ r_pc = "loop"
    /\ r_results' = SearchLoopStep(r_results, r_cands, r_i, chunk_metadata,
                                   r_args.score_threshold)
    /\ r_i' = r_i + 1
    /\ IF r_i = Len(r_cands)
       THEN r_pc' = "returned" /\ r_ret' = "ok"
       ELSE r_pc' = "loop" /\ r_ret' = r_ret
    /\ UNCHANGED <<ragVars, embedVars, tableVars, adderVars, processVars, mode, calls, store, faults, indexVars, fileVars, writerVars,
                   r_op, r_args, r_cands, r_snaps, r_overlap, r_first, chunkerVars>>

\* The caller takes the result.
ReaderReturn ==
    /\ r_pc = "returned"
    /\ r_pc' = "idle"
    /\ r_op' = "none"
    /\ r_args' = EmptyDict
    /\ r_cands' = <<>>
    /\ r_i' = 0
    /\ r_results' = <<>>
    /\ r_ret' = "none"
    /\ r_snaps' = {}
    /\ r_overlap' = {}
    /\ r_first' = NoFirstSearch
    /\ UNCHANGED <<ragVars, embedVars, tableVars, adderVars, processVars, mode, calls, store, faults, indexVars, fileVars, writerVars, chunkerVars>>

\* The caller takes the result and calls search_similar again with the same
\* query vector, k and score_threshold, no other call in between.
SearchSimilarAgain ==
    /\ mode = "search"
    /\ r_pc = "returned" /\ r_op = "search"
    /\ ~r_first.ran
    /\ r_first' = [ran |-> TRUE, results |-> r_results, index |-> index,
                   chunk_metadata |-> chunk_metadata]
    /\ r_results' = SearchSimilar(index, chunk_metadata, r_args.q, r_args.k,
                                  r_args.score_threshold)
    /\ UNCHANGED <<ragVars, embedVars, tableVars, adderVars, processVars, mode, calls, store, faults, indexVars, fileVars, writerVars,
                   r_pc, r_op, r_args, r_ret, r_cands, r_i, r_snaps, r_overlap, chunkerVars>>

\* search_similar as one step, when no other call runs
SearchSimilarCall(q, k, thr) ==
    /\ mode \in {"seq", "search"}
    /\ r_pc = "idle"
    /\ w_pc = "idle"
    /\ r_pc' = "returned"
    /\ r_op' = "search"
    /\ r_args' = SearchArgs(q, k, thr)
    /\ r_results' = SearchSimilar(index, chunk_metadata, q, k, thr)
    /\ r_ret' = "ok"
    /\ UNCHANGED <<ragVars, embedVars, tableVars, adderVars, processVars, mode, calls, store, faults, indexVars, fileVars, writerVars,
                   r_cands, r_i, r_snaps, r_overlap, r_first, chunkerVars>>

FilterArgs(q, source_filter, date_filter, top_k) ==
    [q |-> q, source_filter |-> source_filter, date_filter |-> date_filter,
     top_k |-> top_k]

\* all_results and filtered_results of retrieve_by_filters (lines 102-119)
AllResults(idx, meta, q, top_k) == SearchSimilar(idx, meta, q, top_k * 2, NoThreshold)

FilteredResults(idx, meta, q, source_filter, date_filter, top_k) ==
    FilterResults(AllResults(idx, meta, q, top_k), 1, source_filter, date_filter, top_k)

\* the search of line 121's retrieve_relevant_documents
FilteredSearch(idx, meta, q, source_filter, date_filter, top_k) ==
    SearchSimilar(idx, meta, q,
                  Len(FilteredResults(idx, meta, q, source_filter, date_filter, top_k)),
                  DefaultScoreThreshold)

\* line 121: retrieve_relevant_documents(query, top_k=len(filtered_results))
RetrieveByFilters(idx, meta, q, source_filter, date_filter, top_k, sources) ==
    RetrieveRelevantDocuments(FilteredSearch(idx, meta, q, source_filter, date_filter, top_k),
                              Len(FilteredResults(idx, meta, q, source_filter, date_filter, top_k)),
                              DefaultScoreThreshold, sources)

\* retrieve_by_filters as one step, when no other call runs
RetrieveByFiltersCall(q, source_filter, date_filter, top_k) ==
    /\ mode \in {"seq", "search"}
    /\ r_pc = "idle"
    /\ w_pc = "idle"
    /\ r_pc' = "returned"
    /\ r_op' = "filters"
    /\ r_args' = FilterArgs(q, source_filter, date_filter, top_k)
    /\ \E sources \in Orderings(SourcesOf(FilteredSearch(index, chunk_metadata, q,
                                                         source_filter, date_filter, top_k))) :
           r_results' = RetrieveByFilters(index, chunk_metadata, q, source_filter,
                                          date_filter, top_k, sources).retrieved_documents
    /\ r_ret' = "ok"
    /\ UNCHANGED <<ragVars, embedVars, tableVars, adderVars, processVars, mode, calls, store, faults, indexVars, fileVars, writerVars,
                   r_cands, r_i, r_snaps, r_overlap, r_first, chunkerVars>>

\* The same call when no hit passes the filters of a non-empty index: line 121
\* asks for top_k = 0, and the faiss builds that check k > 0 raise.
RetrieveByFiltersRaises(q, source_filter, date_filter, top_k) ==
    /\ mode \in {"seq", "search"}
    /\ r_pc = "idle"
    /\ w_pc = "idle"
    /\ Len(index) > 0
    /\ Len(FilteredResults(index, chunk_metadata, q, source_filter, date_filter, top_k)) = 0
    /\ r_pc' = "returned"
    /\ r_op' = "filters"
    /\ r_args' = FilterArgs(q, source_filter, date_filter, top_k)
    /\ r_results' = <<>>
    /\ r_ret' = "raised"
    /\ UNCHANGED <<ragVars, embedVars, tableVars, adderVars, processVars, mode, calls, store, faults, indexVars, fileVars, writerVars,
                   r_cands, r_i, r_snaps, r_overlap, r_first, chunkerVars>>

\* ----------------------------------------------------- inputs of the calls
RECURSIVE SeqsUpTo(_, _)
\* the sequences over S of length 1..n
SeqsUpTo(S, n) ==
    IF n <= 0 THEN {}
    ELSE SeqsUpTo(S, n - 1) \cup [1..n -> S]

SourceFilters == {<<>>, <<"C", "N">>}

DateFilters == {<<>>, <<"F", "e">>}


\* --------------------------------------------------------------- TextChunker
IsPunct(c) == c \in {".", "!", "?"}

IsSpace(c) == c \in {" ", "\n"}

RECURSIVE PunctRunEnd(_, _)
\* the last position of the run of [.!?] that starts at i (i - 1 if none)
PunctRunEnd(t, i) ==
    IF i <= Len(t) /\ IsPunct(t[i]) THEN PunctRunEnd(t, i + 1) ELSE i - 1

RECURSIVE SpaceRunEnd(_, _)
SpaceRunEnd(t, i) ==
    IF i <= Len(t) /\ IsSpace(t[i]) THEN SpaceRunEnd(t, i + 1) ELSE i - 1

RECURSIVE SplitFrom(_, _, _)
\* re.compile(r'[.!?]+\s+').split(text), from position i with piece cur open
SplitFrom(t, i, cur) ==
    IF i > Len(t) THEN <<cur>>
    ELSE IF IsPunct(t[i])
         THEN LET j == PunctRunEnd(t, i)
                  m == SpaceRunEnd(t, j + 1)
              IN  IF m > j
                  THEN <<cur>> \o SplitFrom(t, m + 1, <<>>)
                  ELSE SplitFrom(t, j + 1, cur \o SubSeq(t, i, j))
         ELSE SplitFrom(t, i + 1, Append(cur, t[i]))

RECURSIVE LStrip(_)
LStrip(s) == IF s # <<>> /\ IsSpace(Head(s)) THEN LStrip(Tail(s)) ELSE s

RECURSIVE RStrip(_)
RStrip(s) ==
    IF s # <<>> /\ IsSpace(s[Len(s)]) THEN RStrip(SubSeq(s, 1, Len(s) - 1)) ELSE s

\* str.strip()
Strip(s) == RStrip(LStrip(s))

RECURSIVE StripAll(_)
\* [s.strip() for s in sentences if s.strip()]
StripAll(pieces) ==
    IF pieces = <<>> THEN <<>>
    ELSE IF Strip(Head(pieces)) = <<>> THEN StripAll(Tail(pieces))
    ELSE <<Strip(Head(pieces))>> \o StripAll(Tail(pieces))

\* lines 33-34
SplitSentences(text) == StripAll(SplitFrom(text, 1, <<>>))

RECURSIVE Join(_, _)
\* sep.join(parts)
Join(parts, sep) ==
    IF parts = <<>> THEN <<>>
    ELSE IF Len(parts) = 1 THEN parts[1]
    ELSE parts[1] \o sep \o Join(Tail(parts), sep)

RECURSIVE WordCountFrom(_, _, _)
\* len(content.split())
WordCountFrom(s, i, inword) ==
    IF i > Len(s) THEN 0
    ELSE IF IsSpace(s[i]) THEN WordCountFrom(s, i + 1, FALSE)
    ELSE (IF inword THEN 0 ELSE 1) + WordCountFrom(s, i + 1, TRUE)

WordCount(s) == WordCountFrom(s, 1, FALSE)

\* _create_chunk
CreateChunk(content, article_id, chunk_index, start_pos) ==
    [content |-> Strip(content),
     chunk_id |-> <<article_id, "_chunk_", chunk_index>>,
     article_id |-> article_id,
     start_pos |-> start_pos,
     end_pos |-> start_pos + Len(content),
     chunk_index |-> chunk_index,
     metadata |-> [word_count |-> WordCount(content), char_count |-> Len(content)]]

RECURSIVE OverlapFrom(_, _, _, _)
\* the loop of _get_overlap_sentences, from sentence i backwards
OverlapFrom(sentences, i, overlap_length, target_overlap) ==
    IF i < 1 THEN <<>>
    ELSE IF overlap_length + Len(sentences[i]) <= target_overlap
         THEN OverlapFrom(sentences, i - 1, overlap_length + Len(sentences[i]),
                          target_overlap) \o <<sentences[i]>>
         ELSE <<>>

\* _get_overlap_sentences
GetOverlapSentences(sentences, target_overlap) ==
    OverlapFrom(sentences, Len(sentences), 0, target_overlap)

\* no earlier call to compare with
NoFirstRun == [ran |-> FALSE, chunks |-> <<>>]

\* chunk_index left as it is
SameChunkIndex(chunk_index) == chunk_index

\* line 65: chunk_index += 1
NextChunkIndex(chunk_index) == chunk_index + 1

\* line 44
PotentialChunk(current_chunk, sentence) ==
    IF current_chunk # <<>> THEN current_chunk \o <<" ">> \o sentence ELSE sentence

\* line 46: the chunk is closed before this sentence is added
MustClose(current_chunk, sentence, chunk_size) ==
    Len(PotentialChunk(current_chunk, sentence)) > chunk_size /\ current_chunk # <<>>

\* line 69, after a close: current_chunk = potential_chunk, the value line 44
\* computed from the buffer as it was before the close
ChunkAfterClose(potential_chunk, overlap_sentences, sentence) == potential_chunk

\* chunk_by_sentences(text, article_id), lines 29-40
ChunkCall(text, article_id) ==
    /\ mode = "chunk"
    /\ c_pc = "idle"
    /\ c_text' = text
    /\ c_article_id' = article_id
    /\ c_chunks' = <<>>
    /\ c_current_chunk' = <<>>
    /\ c_current_sentences' = <<>>
    /\ c_chunk_index' = 0
    /\ c_start_pos' = 0
    /\ c_closes' = <<>>
    /\ c_first' = NoFirstRun
    /\ c_i' = 1
    /\ IF text = <<>> \/ Len(Strip(text)) < c_cfg.min_chunk_size
       THEN c_pc' = "done" /\ c_sentences' = <<>>
       ELSE /\ c_sentences' = SplitSentences(text)
            /\ c_pc' = IF SplitSentences(text) = <<>> THEN "final" ELSE "loop"
    /\ UNCHANGED <<ragVars, embedVars, tableVars, adderVars, processVars, mode, calls, store, faults, indexVars, fileVars, writerVars, readerVars, c_cfg>>

\* lines 42-70, a turn that closes no chunk
ChunkTurn ==
    /\ c_pc = "loop"
    /\ ~MustClose(c_current_chunk, c_sentences[c_i], c_cfg.chunk_size)
    /\ c_current_chunk' = PotentialChunk(c_current_chunk, c_sentences[c_i])
    /\ c_current_sentences' = Append(c_current_sentences, c_sentences[c_i])
    /\ c_i' = c_i + 1
    /\ c_pc' = IF c_i = Len(c_sentences) THEN "final" ELSE "loop"
    /\ UNCHANGED <<ragVars, embedVars, tableVars, adderVars, processVars, mode, calls, store, faults, indexVars, fileVars, writerVars, readerVars,
                   c_cfg, c_text, c_article_id, c_sentences, c_chunks, c_chunk_index,
                   c_start_pos, c_closes, c_first>>

\* lines 42-70, a turn that closes the current chunk first
ChunkTurnClosing ==
    /\ c_pc = "loop"
    /\ MustClose(c_current_chunk, c_sentences[c_i], c_cfg.chunk_size)
    /\ LET sentence == c_sentences[c_i]
           potential_chunk == PotentialChunk(c_current_chunk, sentence)
           overlap_sentences == GetOverlapSentences(c_current_sentences, c_cfg.overlap_size)
       IN  /\ c_chunks' = Append(c_chunks, CreateChunk(c_current_chunk, c_article_id,
                                                       c_chunk_index, c_start_pos))
           /\ c_chunk_index' = NextChunkIndex(c_chunk_index)
           /\ c_start_pos' = Len(c_text) - Len(Join(overlap_sentences, <<" ">>))
           /\ c_current_chunk' = ChunkAfterClose(potential_chunk, overlap_sentences, sentence)
           /\ c_current_sentences' = Append(overlap_sentences, sentence)
           /\ c_closes' = Append(c_closes, [overlap |-> overlap_sentences, next |-> sentence])
    /\ c_i' = c_i + 1
    /\ c_pc' = IF c_i = Len(c_sentences) THEN "final" ELSE "loop"
    /\ UNCHANGED <<ragVars, embedVars, tableVars, adderVars, processVars, mode, calls, store, faults, indexVars, fileVars, writerVars, readerVars,
                   c_cfg, c_text, c_article_id, c_sentences, c_first>>

\* lines 72-82: the final chunk, kept if it is long enough
ChunkFinal ==
    /\ c_pc = "final"
    /\ c_chunks' = IF c_current_chunk # <<>> /\ Len(c_current_chunk) >= c_cfg.min_chunk_size
                   THEN Append(c_chunks, CreateChunk(c_current_chunk, c_article_id,
                                                     c_chunk_index, c_start_pos))
                   ELSE c_chunks
    /\ c_pc' = "done"
    /\ UNCHANGED <<ragVars, embedVars, tableVars, adderVars, processVars, mode, calls, store, faults, indexVars, fileVars, writerVars, readerVars,
                   c_cfg, c_text, c_article_id, c_sentences, c_i, c_current_chunk,
                   c_current_sentences, c_chunk_index, c_start_pos, c_closes, c_first>>

\* The caller takes the chunks.
ChunkReturn ==
    /\ c_pc = "done"
    /\ c_pc' = "idle"
    /\ c_text' = <<>>
    /\ c_article_id' = ""
    /\ c_sentences' = <<>>
    /\ c_i' = 0
    /\ c_chunks' = <<>>
    /\ c_current_chunk' = <<>>
    /\ c_current_sentences' = <<>>
    /\ c_chunk_index' = 0
    /\ c_start_pos' = 0
    /\ c_closes' = <<>>
    /\ c_first' = NoFirstRun
    /\ UNCHANGED <<ragVars, embedVars, tableVars, adderVars, processVars, mode, calls, store, faults, indexVars, fileVars, writerVars, readerVars, c_cfg>>

\* The caller takes the chunks and calls chunk_by_sentences again with the
\* same text and article_id (lines 29-40 of the second call).
ChunkAgain ==
    /\ mode = "chunk"
    /\ c_pc = "done"
    /\ ~c_first.ran
    /\ c_first' = [ran |-> TRUE, chunks |-> c_chunks]
    /\ c_chunks' = <<>>
    /\ c_current_chunk' = <<>>
    /\ c_current_sentences' = <<>>
    /\ c_chunk_index' = 0
    /\ c_start_pos' = 0
    /\ c_closes' = <<>>
    /\ c_i' = 1
    /\ IF c_text = <<>> \/ Len(Strip(c_text)) < c_cfg.min_chunk_size
       THEN c_pc' = "done" /\ c_sentences' = <<>>
       ELSE /\ c_sentences' = SplitSentences(c_text)
            /\ c_pc' = IF SplitSentences(c_text) = <<>> THEN "final" ELSE "loop"
    /\ UNCHANGED <<ragVars, embedVars, tableVars, adderVars, processVars, mode, calls, store, faults, indexVars, fileVars, writerVars, readerVars,
                   c_cfg, c_text, c_article_id>>

\* Inputs of a chunking run: texts of 1..MaxSentences sentences separated by
\* ". ", the empty text, a text with no sentence, and one with other endings.
SentenceSet == {<<"a">>, <<"b", "b">>, <<"c", " ", "c">>}

Texts ==
    {Join(ss, <<".", " ">>) : ss \in SeqsUpTo(SentenceSet, MaxSentences)}
        \cup {<<>>, <<" ", ".", " ">>, <<" ", "a", "!", " ", " ", "b", ".", "c", ".">>}

ChunkerConfigs ==
    {[chunk_size |-> cs, overlap_size |-> os, min_chunk_size |-> mn] :
        cs \in {4, 6}, os \in {0, 2}, mn \in {1, 3}}


\* ------------------------------------ generate_embeddings_for_unprocessed_chunks
\* total_processed left as it is
CountNothing(total_processed, batch_chunks) == total_processed

\* line 91: total_processed += len(batch_chunks)
CountProcessed(total_processed, batch_chunks) == total_processed + Len(batch_chunks)

\* line 72: unprocessed_chunks[i:i + self.batch_size], i counted from 0
BatchChunks(unprocessed_chunks, i, size) ==
    SubSeq(unprocessed_chunks, i + 1, Min(i + size, Len(unprocessed_chunks)))

\* lines 59-69: read the unprocessed chunks; return 0 if there are none
EmbedCall ==
    /\ mode = "embed"
    /\ e_pc = "idle"
    /\ e_chunks' = UnprocessedChunks(store)
    /\ e_i' = 0
    /\ e_total' = 0
    /\ e_log' = <<>>
    /\ e_pc' = IF UnprocessedChunks(store) = <<>> THEN "returned" ELSE "loop"
    /\ UNCHANGED <<ragVars, tableVars, adderVars, processVars, mode, calls, store, faults, indexVars, fileVars,
                   writerVars, readerVars, chunkerVars, batch_size>>

\* lines 71-96, one turn of the loop: the batch is encoded, stored and counted,
\* or model.encode or _store_embeddings_batch raises and the batch is skipped
\* (nothing of it is committed)
EmbedBatch(outcome) ==
    /\ mode = "embed"
    /\ e_pc = "loop"
    /\ e_i < Len(e_chunks)
    /\ LET batch_chunks == BatchChunks(e_chunks, e_i, batch_size)
       IN  IF outcome = "ok"
           THEN /\ store' = StoreEmbeddingsBatch(store, batch_chunks,
                                [j \in 1..Len(batch_chunks) |-> EmbeddingOf(batch_chunks[j])],
                                clock)
                /\ e_total' = CountProcessed(e_total, batch_chunks)
           ELSE /\ store' = store
                /\ e_total' = e_total
    /\ e_log' = Append(e_log, [start |-> e_i, raised |-> outcome # "ok"])
    /\ e_i' = e_i + batch_size
    /\ UNCHANGED <<ragVars, tableVars, adderVars, processVars, mode, calls, faults, indexVars, fileVars,
                   writerVars, readerVars, chunkerVars, batch_size, e_pc, e_chunks>>

\* lines 98-99: the loop is over; return total_processed
EmbedLoopEnd ==
    /\ mode = "embed"
    /\ e_pc = "loop"
    /\ e_i >= Len(e_chunks)
    /\ e_pc' = "returned"
    /\ UNCHANGED <<ragVars, tableVars, adderVars, processVars, mode, calls, store, faults, indexVars, fileVars,
                   writerVars, readerVars, chunkerVars, batch_size, e_chunks, e_i, e_total,
                   e_log>>

\* The caller takes the count.
EmbedReturn ==
    /\ mode = "embed"
    /\ e_pc = "returned"
    /\ e_pc' = "idle"
    /\ e_chunks' = <<>>
    /\ e_i' = 0
    /\ e_total' = 0
    /\ e_log' = <<>>
    /\ UNCHANGED <<ragVars, tableVars, adderVars, processVars, mode, calls, store, faults, indexVars, fileVars,
                   writerVars, readerVars, chunkerVars, batch_size>>


\* ------------------------------------------- calls on the embeddings table
\* Vectors a caller passes: of the model's dimension with exact numbers, with
\* an inexact number, and of another dimension.
TableVectors == {<<0, 0>>, <<InexactValue, 1>>, <<1>>}

RECURSIVE LastStored(_, _, _)
\* chunk_id -> the vector last passed for it, after zip(chunk_ids, embeddings)
LastStored(last, ids, embs) ==
    IF ids = <<>> \/ embs = <<>> THEN last
    ELSE LastStored([c \in (DOMAIN last) \cup {Head(ids)} |->
                        IF c = Head(ids) THEN Head(embs) ELSE last[c]],
                    Tail(ids), Tail(embs))

\* _store_embeddings_batch(chunk_ids, embeddings) called and committed
StoreEmbeddingsBatchCall(ids, embs) ==
    /\ mode = "table"
    /\ store' = StoreEmbeddingsBatch(store, ids, embs, clock)
    /\ t_call' = [chunk_ids |-> ids, embeddings |-> embs,
                  repeated |-> /\ t_call # EmptyDict
                               /\ t_call.chunk_ids = ids /\ t_call.embeddings = embs]
    /\ t_last' = LastStored(t_last, ids, embs)
    /\ t_got' = EmptyDict
    /\ UNCHANGED <<ragVars, embedVars, adderVars, processVars, mode, calls, faults, indexVars, fileVars, writerVars,
                   readerVars, chunkerVars, clock>>

\* _store_embeddings_batch raises at connect, executemany or commit: nothing
\* is committed
StoreEmbeddingsBatchRaises(ids, embs) ==
    /\ mode = "table"
    /\ faults < MaxFaults
    /\ faults' = faults + 1
    /\ t_got' = EmptyDict
    /\ UNCHANGED <<ragVars, embedVars, adderVars, processVars, mode, calls, store, indexVars, fileVars, writerVars,
                   readerVars, chunkerVars, clock, t_call, t_last>>

\* get_embedding_by_chunk_id(chunk_id)
GetEmbeddingCall(id) ==
    /\ mode = "table"
    /\ t_got' = [chunk_id |-> id, value |-> GetEmbeddingByChunkId(store, id)]
    /\ UNCHANGED <<ragVars, embedVars, adderVars, processVars, mode, calls, store, faults, indexVars, fileVars,
                   writerVars, readerVars, chunkerVars, clock, t_call, t_last>>

\* A second passes: CURRENT_TIMESTAMP advances.
Tick ==
    /\ mode \in {"table", "embed", "process"}
    /\ clock < MaxClock
    /\ clock' = clock + 1
    /\ UNCHANGED <<ragVars, embedVars, adderVars, processVars, mode, calls, store, faults, indexVars, fileVars,
                   writerVars, readerVars, chunkerVars, t_call, t_last, t_got>>


\* ------------------------------------------------------------ TextProcessor
\* Article ids of the articles table.
ArticleIds == 1..MaxArticles

\* Article texts by what processing makes of them: content IS NULL; a
\* cleaned text under 50 characters or one the chunker makes no chunk of;
\* texts of one and of two chunks.
ArticleTexts == {"null", "short", "one", "two"}

ChunksOfText(content) ==
    IF content = "one" THEN 1 ELSE IF content = "two" THEN 2 ELSE 0

\* language codes detect_langs returns; it samples, so the same text can
\* get another code in another run
LanguageCodes == {"en", "de"}

\* process_article_text: the chunks of chunk_by_sentences, chunk_id
\* f"{article_id}_chunk_{chunk_index}", with the language added
ProcessArticleText(article_id, content, language_code) ==
    [i \in 1..ChunksOfText(content) |->
        [chunk_id |-> <<article_id, "_chunk_", i - 1>>, article_id |-> article_id,
         chunk_index |-> i - 1, language_code |-> language_code]]

\* the row INSERTed for a chunk; created_at defaults to CURRENT_TIMESTAMP
ChunkRow(chunk, now) ==
    [chunk_id |-> chunk.chunk_id, article_id |-> chunk.article_id,
     chunk_index |-> chunk.chunk_index, language_code |-> chunk.language_code,
     created_at |-> now]

\* INSERT into text_chunks that keeps a row of the same chunk_id
AppendChunkRow(rows, row) == rows \cup {row}

\* INSERT OR REPLACE INTO text_chunks: chunk_id is the primary key
ReplaceChunkRow(rows, row) == InsertOrReplace(rows, row)

RECURSIVE InsertChunks(_, _, _, _)
\* the loop of store_chunks, over chunks[p..]
InsertChunks(rows, chunks, p, now) ==
    IF p > Len(chunks) THEN rows
    ELSE InsertChunks(ReplaceChunkRow(rows, ChunkRow(chunks[p], now)), chunks, p + 1, now)

RowsOfArticle(rows, article_id) == {r \in rows : r.article_id = article_id}

NoStore == [article_id |-> 0, rows_before |-> 0, again |-> FALSE]

\* SELECT ... WHERE processed = FALSE AND content IS NOT NULL
Unprocessed ==
    {a \in ArticleIds : ~articles[a].processed /\ articles[a].content # "null"}

\* process_unprocessed_articles up to the loop: the rows come in any order
\* (the SELECT has no ORDER BY).
ProcessCall(fetched) ==
    /\ mode = "process"
    /\ p_pc = "idle"
    /\ fetched \in Orderings(Unprocessed)
    /\ p_articles' = fetched
    /\ p_i' = 1
    /\ p_count' = 0
    /\ p_chunks' = <<>>
    /\ p_pc' = "loop"
    /\ p_stored' = NoStore
    /\ UNCHANGED <<ragVars, embedVars, tableVars, adderVars, articles, text_chunks, mode, calls,
                   store, faults, indexVars, fileVars, writerVars, readerVars, chunkerVars>>

\* lines 63-69: process_article_text for the next article; it raises (the
\* except continues with the next article), or returns no chunk (nothing is
\* stored or marked), or returns chunks.
ProcessArticle(outcome, language_code) ==
    /\ p_pc = "loop"
    /\ p_i <= Len(p_articles)
    /\ outcome = "raise" => faults < MaxFaults
    /\ faults' = IF outcome = "raise" THEN faults + 1 ELSE faults
    /\ LET article_id == p_articles[p_i]
           chunks == ProcessArticleText(article_id, articles[article_id].content, language_code)
       IN  IF outcome = "raise" \/ chunks = <<>>
           THEN /\ p_i' = p_i + 1
                /\ UNCHANGED <<p_pc, p_chunks>>
           ELSE /\ p_chunks' = chunks
                /\ p_pc' = "store"
                /\ UNCHANGED p_i
    /\ UNCHANGED <<ragVars, embedVars, tableVars, adderVars, articles, text_chunks, p_articles,
                   p_count, p_stored, mode, calls, store, indexVars, fileVars, writerVars,
                   readerVars, chunkerVars>>

\* store_chunks (lines 104-132): the INSERTs and the commit are one
\* transaction; an exception before the commit leaves the table as it was
\* and reaches the except of the loop.
StoreChunks(outcome) ==
    /\ p_pc = "store"
    /\ outcome = "raise" => faults < MaxFaults
    /\ faults' = IF outcome = "raise" THEN faults + 1 ELSE faults
    /\ IF outcome = "raise"
       THEN /\ p_i' = p_i + 1
            /\ p_pc' = "loop"
            /\ UNCHANGED <<text_chunks, p_stored>>
       ELSE /\ text_chunks' = InsertChunks(text_chunks, p_chunks, 1, clock)
            /\ p_stored' = [article_id |-> p_articles[p_i],
                            rows_before |-> Cardinality(text_chunks),
                            again |-> RowsOfArticle(text_chunks, p_articles[p_i]) # {}]
            /\ p_pc' = "mark"
            /\ UNCHANGED p_i
    /\ UNCHANGED <<ragVars, embedVars, tableVars, adderVars, articles, p_articles, p_chunks,
                   p_count, mode, calls, store, indexVars, fileVars, writerVars, readerVars,
                   chunkerVars>>

\* mark_article_processed (lines 134-143) and processed_count += 1; an
\* exception in it reaches the except of the loop.
MarkArticleProcessed(outcome) ==
    /\ p_pc = "mark"
    /\ outcome = "raise" => faults < MaxFaults
    /\ faults' = IF outcome = "raise" THEN faults + 1 ELSE faults
    /\ IF outcome = "raise"
       THEN UNCHANGED <<articles, p_count>>
       ELSE /\ articles' = [articles EXCEPT ![p_articles[p_i]].processed = TRUE]
            /\ p_count' = p_count + 1
    /\ p_i' = p_i + 1
    /\ p_pc' = "loop"
    /\ UNCHANGED <<ragVars, embedVars, tableVars, adderVars, text_chunks, p_articles, p_chunks,
                   p_stored, mode, calls, store, indexVars, fileVars, writerVars, readerVars,
                   chunkerVars>>

\* line 79: return processed_count
ProcessReturn ==
    /\ p_pc = "loop"
    /\ p_i > Len(p_articles)
    /\ p_pc' = "idle"
    /\ UNCHANGED <<ragVars, embedVars, tableVars, adderVars, articles, text_chunks, p_articles,
                   p_i, p_chunks, p_count, p_stored, mode, calls, store, faults, indexVars,
                   fileVars, writerVars, readerVars, chunkerVars>>


\* -------------------------------------------------------- generate_response
\* the prefix lengths of _fallback_response: content[:300], title[:60]
TopContentChars == 300

TitleChars == 60

\* the number of documents listed under "Key Points": docs[:3]
KeyPointDocs == 3

Take(s, n) == SubSeq(s, 1, Min(n, Len(s)))

\* The fractions 0.0, 0.5 and 1.0
FracOf(n, d) == [num |-> n, den |-> d]

\* min(avg_similarity * 2, 1.0) without the min
ConfidenceUnclamped(avg_similarity) == FracOf(2 * avg_similarity.num, avg_similarity.den)

\* line 118: min(avg_similarity * 2, 1.0)
Confidence(avg_similarity) ==
    IF FracLess(FracOf(1, 1), FracOf(2 * avg_similarity.num, avg_similarity.den))
    THEN FracOf(1, 1)
    ELSE FracOf(2 * avg_similarity.num, avg_similarity.den)

RAGResponse(answer, sources, retrieved_documents, confidence_score, query) ==
    [answer |-> answer, sources |-> sources, retrieved_documents |-> retrieved_documents,
     confidence_score |-> confidence_score, query |-> query]

\* the no-result response with the fallback's confidence
NoResultsResponseHalf(query) ==
    RAGResponse([kind |-> "no_relevant_documents"], <<>>, <<>>, FracOf(1, 2), query)

\* lines 87-94: the canned answer when nothing was retrieved
NoResultsResponse(query) ==
    RAGResponse([kind |-> "no_relevant_documents"], <<>>, <<>>, FracOf(0, 1), query)

\* _fallback_response raises: line 183 joins the documents' sources, and
\* str.join raises TypeError on a None
FallbackRaises(docs) == \E i \in 1..Len(docs) : docs[i].source = None

\* _fallback_response, where it does not raise: the text's variable parts
FallbackResponse(docs) ==
    IF docs = <<>> THEN [kind |-> "no_articles"]
    ELSE [kind |-> "fallback",
          top_content |-> Take(docs[1].content, TopContentChars) \o <<"...">>,
          key_points |-> [i \in 1..Min(KeyPointDocs, Len(docs)) |->
                             [title |-> Take(docs[i].article_title, TitleChars),
                              source |-> docs[i].source]],
          count |-> Len(docs),
          sources |-> {docs[i].source : i \in 1..Len(docs)}]

GenerateArgs(q, top_k, thr) == [query |-> q, top_k |-> top_k, score_threshold |-> thr]

\* a backend error sends the call back to the backend
RetryAfterBackendError == "generate"

\* line 128: an exception of _call_openai is caught by the except branch
AfterBackendError == "except"

\* generate_response is called (lines 61-79)
GenerateResponseCall(q, top_k, thr) ==
    /\ mode = "rag"
    /\ g_pc = "idle"
    /\ g_args' = GenerateArgs(q, top_k, thr)
    /\ g_backend' = "none"
    /\ g_stages' = <<>>
    /\ g_pc' = "embedding"
    /\ UNCHANGED <<embedVars, tableVars, adderVars, processVars, mode, calls, store, faults, indexVars, fileVars, writerVars,
                   readerVars, chunkerVars, api_key, g_retrieval, g_response>>

\* search_by_text, lines 146-147: the query is embedded
GenerateEmbedQuery ==
    /\ mode = "rag"
    /\ g_pc = "embedding"
    /\ g_stages' = Append(g_stages, "embed")
    /\ g_pc' = "searching"
    /\ UNCHANGED <<embedVars, tableVars, adderVars, processVars, mode, calls, store, faults, indexVars, fileVars, writerVars,
                   readerVars, chunkerVars, api_key, g_args, g_retrieval, g_response, g_backend>>

\* generate_response, lines 80-85: search_by_text raises (loading the model,
\* encoding the query, or the index search), outside any try
GenerateRetrievalRaises ==
    /\ mode = "rag"
    /\ g_pc \in {"embedding", "searching"}
    /\ g_retrieval' = EmptyDict
    /\ g_response' = EmptyDict
    /\ g_pc' = "raised"
    /\ UNCHANGED <<embedVars, tableVars, adderVars, processVars, mode, calls, store, faults, indexVars, fileVars, writerVars,
                   readerVars, chunkerVars, api_key, g_args, g_backend, g_stages>>

\* search_similar returns and retrieve_relevant_documents builds its result
\* (context_text included); generate_response lines 87-97: the canned answer
\* if nothing was retrieved, the prompt context otherwise
GenerateSearch ==
    /\ mode = "rag"
    /\ g_pc = "searching"
    /\ LET search_results == SearchSimilar(index, chunk_metadata, g_args.query, g_args.top_k,
                                           g_args.score_threshold)
       IN  \E sources \in Orderings(SourcesOf(search_results)) :
             /\ g_retrieval' = RetrieveRelevantDocuments(search_results, g_args.top_k,
                                                         g_args.score_threshold, sources)
             /\ IF search_results = <<>>
                THEN /\ g_response' = NoResultsResponse(g_args.query)
                     /\ g_stages' = g_stages \o <<"search", "no_results", "responded">>
                     /\ g_pc' = "returned"
                ELSE /\ g_response' = EmptyDict
                     /\ g_stages' = g_stages \o <<"search", "context">>
                     /\ g_pc' = "generate"
    /\ UNCHANGED <<embedVars, tableVars, adderVars, processVars, mode, calls, store, faults, indexVars, fileVars, writerVars,
                   readerVars, chunkerVars, api_key, g_args, g_backend>>

\* lines 110-111 with an api_key: _call_openai is entered and
\* openai.ChatCompletion.create called (lines 147-155, no timeout argument)
GenerateCallOpenAI ==
    /\ mode = "rag"
    /\ g_pc = "generate"
    /\ api_key
    /\ g_backend' = "pending"
    /\ g_stages' = Append(g_stages, "generate")
    /\ g_pc' = "calling"
    /\ UNCHANGED <<embedVars, tableVars, adderVars, processVars, mode, calls, store, faults, indexVars, fileVars, writerVars,
                   readerVars, chunkerVars, api_key, g_args, g_retrieval, g_response>>

\* the backend call completes: _call_openai returns (lines 116-126) or raises
GenerateOpenAIDone(outcome) ==
    /\ mode = "rag"
    /\ g_pc = "calling"
    /\ IF outcome = "ok"
       THEN /\ g_backend' = "ok"
            /\ g_response' = RAGResponse([kind |-> "backend"], g_retrieval.sources,
                                         g_retrieval.retrieved_documents,
                                         Confidence(g_retrieval.avg_similarity),
                                         g_args.query)
            /\ g_stages' = g_stages \o <<"success", "responded">>
            /\ g_pc' = "returned"
       ELSE /\ g_backend' = "raised"
            /\ g_response' = g_response
            /\ g_stages' = g_stages
            /\ g_pc' = AfterBackendError
    /\ UNCHANGED <<embedVars, tableVars, adderVars, processVars, mode, calls, store, faults, indexVars, fileVars, writerVars,
                   readerVars, chunkerVars, api_key, g_args, g_retrieval>>

\* lines 112-126 without an api_key: _fallback_response inside the try
GenerateFallback ==
    /\ mode = "rag"
    /\ g_pc = "generate"
    /\ ~api_key
    /\ g_backend' = "absent"
    /\ IF FallbackRaises(g_retrieval.retrieved_documents)
       THEN /\ g_response' = g_response
            /\ g_stages' = Append(g_stages, "fallback")
            /\ g_pc' = "except"
       ELSE /\ g_response' = RAGResponse(FallbackResponse(g_retrieval.retrieved_documents),
                                         g_retrieval.sources,
                                         g_retrieval.retrieved_documents,
                                         Confidence(g_retrieval.avg_similarity),
                                         g_args.query)
            /\ g_stages' = g_stages \o <<"fallback", "responded">>
            /\ g_pc' = "returned"
    /\ UNCHANGED <<embedVars, tableVars, adderVars, processVars, mode, calls, store, faults, indexVars, fileVars, writerVars,
                   readerVars, chunkerVars, api_key, g_args, g_retrieval>>

\* lines 128-138: the except branch builds the fallback answer, unguarded
GenerateExcept ==
    /\ mode = "rag"
    /\ g_pc = "except"
    /\ IF FallbackRaises(g_retrieval.retrieved_documents)
       THEN /\ g_response' = g_response
            /\ g_stages' = Append(g_stages, "fallback")
            /\ g_pc' = "raised"
       ELSE /\ g_response' = RAGResponse(FallbackResponse(g_retrieval.retrieved_documents),
                                         g_retrieval.sources,
                                         g_retrieval.retrieved_documents,
                                         FracOf(1, 2),
                                         g_args.query)
            /\ g_stages' = g_stages \o <<"fallback", "responded">>
            /\ g_pc' = "returned"
    /\ UNCHANGED <<embedVars, tableVars, adderVars, processVars, mode, calls, store, faults, indexVars, fileVars, writerVars,
                   readerVars, chunkerVars, api_key, g_args, g_retrieval, g_backend>>

\* batch_summarize_topics, lines 216-224: the call was made for a topic and
\* raised; the topic gets an error entry
BatchTopicError ==
    /\ mode = "rag"
    /\ g_pc = "raised"
    /\ g_response' = RAGResponse([kind |-> "error"], <<>>, <<>>, FracOf(0, 1), g_args.query)
    /\ g_pc' = "topic_done"
    /\ UNCHANGED <<embedVars, tableVars, adderVars, processVars, mode, calls, store, faults, indexVars, fileVars, writerVars,
                   readerVars, chunkerVars, api_key, g_args, g_retrieval, g_backend, g_stages>>

\* The caller takes the response or the exception.
GenerateReturn ==
    /\ mode = "rag"
    /\ g_pc \in {"returned", "raised", "topic_done"}
    /\ g_pc' = "idle"
    /\ g_args' = EmptyDict
    /\ g_retrieval' = EmptyDict
    /\ g_response' = EmptyDict
    /\ g_backend' = "none"
    /\ g_stages' = <<>>
    /\ UNCHANGED <<embedVars, tableVars, adderVars, processVars, mode, calls, store, faults, indexVars, fileVars, writerVars,
                   readerVars, chunkerVars, api_key>>


\* ------------------------------------------------------------ specifications
\* TextChunker(): chunk_size = 512, overlap_size = 50, min_chunk_size = 100
DefaultChunkerConfig == [chunk_size |-> 512, overlap_size |-> 50, min_chunk_size |-> 100]

\* No index files yet, and no call running.
InitCalls ==
    /\ index_file = NoFile
    /\ metadata_file = NoFile
    /\ faults = 0
    /\ calls = 0
    /\ w_pc = "idle" /\ w_op = "none" /\ w_embeddings = <<>> /\ w_chunk_ids = <<>>
    /\ w_i = 0 /\ w_ret = NoRet /\ w_snaps = {}
    /\ r_pc = "idle" /\ r_op = "none" /\ r_args = EmptyDict /\ r_cands = <<>>
    /\ r_i = 0 /\ r_results = <<>> /\ r_ret = "none" /\ r_snaps = {} /\ r_overlap = {}
    /\ r_first = NoFirstSearch
    /\ c_pc = "idle" /\ c_text = <<>> /\ c_article_id = "" /\ c_sentences = <<>>
    /\ c_i = 0 /\ c_chunks = <<>> /\ c_current_chunk = <<>>
    /\ c_current_sentences = <<>> /\ c_chunk_index = 0 /\ c_start_pos = 0
    /\ c_closes = <<>> /\ c_first = NoFirstRun
    /\ g_pc = "idle" /\ g_args = EmptyDict /\ g_retrieval = EmptyDict
    /\ g_response = EmptyDict /\ g_backend = "none" /\ g_stages = <<>>
    /\ a_pc = "idle" /\ a_embeddings = <<>> /\ a_chunk_ids = <<>> /\ a_i = 0
    /\ e_pc = "idle" /\ e_chunks = <<>> /\ e_i = 0 /\ e_total = 0 /\ e_log = <<>>
    /\ clock = 0 /\ t_call = EmptyDict /\ t_last = EmptyDict /\ t_got = EmptyDict
    /\ IF mode = "process"
       THEN articles \in [ArticleIds -> [content : ArticleTexts, processed : {FALSE}]]
       ELSE articles = EmptyDict
    /\ text_chunks = {} /\ p_pc = "idle" /\ p_articles = <<>> /\ p_i = 0
    /\ p_chunks = <<>> /\ p_count = 0 /\ p_stored = NoStore

\* After FAISSManager() with no index files yet: an empty index.
InitCommon ==
    /\ index = <<>> /\ chunk_metadata = <<>> /\ api_key = FALSE /\ batch_size = MaxBatch
    /\ InitCalls

\* The embeddings table once every chunk has been embedded.
FullStore ==
    {EmbeddingRow(id, EmbeddingOf(id), 0) : id \in ChunkIds}

\* A fresh installation: an empty embeddings table.
Init == mode = "seq" /\ store = {} /\ c_cfg = DefaultChunkerConfig /\ InitCommon

\* The index is first built after the chunks were embedded (src/test_faiss.py).
InitConc == mode = "conc" /\ store = FullStore /\ c_cfg = DefaultChunkerConfig /\ InitCommon

InitChunk == mode = "chunk" /\ store = {} /\ c_cfg \in ChunkerConfigs /\ InitCommon

\* Any index add_new_embeddings can have left: up to MaxIndex vectors, and
\* the metadata of as many chunks, or of fewer where a lookup raised.
InitSearch ==
    /\ mode = "search" /\ store = {} /\ c_cfg = DefaultChunkerConfig
    /\ \E n \in 0..MaxIndex : \E m \in 0..n :
           /\ index \in [1..n -> Vectors]
           /\ \E ids \in [1..m -> ChunkIds \cup {UnknownId}] : chunk_metadata = MetaOf(ids)
    /\ api_key = FALSE /\ batch_size = MaxBatch
    /\ InitCalls

StoreNext == \E first \in 1..MaxChunks, size \in 1..MaxBatch : StoreBatch(first, size)

\* The steps of a running writer call.
WriterSteps ==
    \/ BuildResetIndex
    \/ BuildResetMeta
    \/ IndexAdd
    \/ MetaLookup
    \/ MetaLookupRaises
    \/ \E failure \in {"none", "index", "metadata"} : SaveIndex(failure)
    \/ WriterReturn

\* build_index_from_database, and add_new_embeddings with 1..MaxBatch
\* chunk_ids and 1..MaxBatch embeddings
WriterNext ==
    \/ BuildCall
    \/ \E failure \in {"none", "index", "metadata"} : LoadIndex(failure)
    \/ \E ids \in SeqsUpTo(ChunkIds \cup {UnknownId}, MaxBatch) :
           \E n \in 1..MaxBatch : \E embs \in [1..n -> Vectors] : AddCall(ids, embs)
    \/ WriterSteps

\* One caller: a call starts only when no other call runs.
Next ==
    \/ StoreNext
    \/ WriterNext
    \/ \E q \in QueryVectors, k \in 1..MaxK, thr \in Thresholds : SearchSimilarCall(q, k, thr)
    \/ \E q \in QueryVectors, sf \in SourceFilters, df \in DateFilters, top_k \in 1..MaxK :
           \/ RetrieveByFiltersCall(q, sf, df, top_k)
           \/ RetrieveByFiltersRaises(q, sf, df, top_k)
    \/ ReaderReturn

Spec == Init /\ [][Next]_vars

\* A writer thread and a searching thread on one FAISSManager.
NextConc ==
    \/ BuildCall
    \/ \E id \in ChunkIds \cup {UnknownId}, v \in Vectors : AddCall(<<id>>, <<v>>)
    \/ WriterSteps
    \/ \E q \in QueryVectors, k \in 1..MaxK, thr \in Thresholds : SearchCall(q, k, thr)
    \/ SearchCheck
    \/ SearchFaiss
    \/ SearchFaissRaises
    \/ SearchLoopTurn
    \/ ReaderReturn

SpecConc == InitConc /\ [][NextConc]_vars

\* The chunks are embedded; no index yet.
InitWriters == mode = "writers" /\ store = FullStore /\ c_cfg = DefaultChunkerConfig /\ InitCommon

\* Two threads on one FAISSManager: one calls build_index_from_database, the
\* other add_new_embeddings with the embeddings of 1..MaxBatch chunks; then
\* they are joined. No call fails.
NextWriters ==
    \/ BuildCall
    \/ BuildResetIndex
    \/ BuildResetMeta
    \/ IndexAdd
    \/ MetaLookup
    \/ SaveIndex("none")
    \/ \E n \in 1..MaxBatch : \E ids \in [1..n -> ChunkIds \cup {UnknownId}] :
           AdderCall(ids, [i \in 1..n |-> EmbeddingOf(ids[i])])
    \/ AdderIndexAdd
    \/ AdderMetaLookup
    \/ AdderSave
    \/ WritersJoin

SpecWriters == InitWriters /\ [][NextWriters]_vars

\* A fresh installation, no index files yet.
InitFiles == mode = "files" /\ store = {} /\ c_cfg = DefaultChunkerConfig /\ InitCommon

\* One caller adds embeddings, every chunk lookup succeeding, and loads the
\* index; writing or reading a file may fail.
NextFiles ==
    \/ \E n \in 1..MaxBatch : \E ids \in [1..n -> ChunkIds \cup {UnknownId}] :
           AddCall(ids, [i \in 1..n |-> EmbeddingOf(ids[i])])
    \/ IndexAdd
    \/ MetaLookup
    \/ \E failure \in {"none", "index", "metadata"} : SaveIndex(failure)
    \/ \E failure \in {"none", "index", "metadata"} : LoadIndex(failure)
    \/ WriterReturn

SpecFiles == InitFiles /\ [][NextFiles]_vars

\* Articles were ingested and none is processed yet.
InitProcess == mode = "process" /\ store = {} /\ c_cfg = DefaultChunkerConfig /\ InitCommon

NextProcess ==
    \/ \E fetched \in Orderings(Unprocessed) : ProcessCall(fetched)
    \/ \E outcome \in {"ok", "raise"}, language_code \in LanguageCodes :
           ProcessArticle(outcome, language_code)
    \/ \E outcome \in {"ok", "raise"} : StoreChunks(outcome)
    \/ \E outcome \in {"ok", "raise"} : MarkArticleProcessed(outcome)
    \/ ProcessReturn
    \/ Tick

SpecProcess == InitProcess /\ [][NextProcess]_vars

\* Searches and filtered retrievals of one caller over a given index.
NextSearch ==
    \/ \E q \in QueryVectors, k \in 1..MaxK, thr \in Thresholds : SearchSimilarCall(q, k, thr)
    \/ \E q \in QueryVectors, sf \in SourceFilters, df \in DateFilters, top_k \in 1..MaxK :
           \/ RetrieveByFiltersCall(q, sf, df, top_k)
           \/ RetrieveByFiltersRaises(q, sf, df, top_k)
    \/ ReaderReturn
    \/ SearchSimilarAgain

SpecSearch == InitSearch /\ [][NextSearch]_vars

\* A NewsRAGGenerator with or without an api_key, over an index built from up
\* to MaxIndex embedded chunks.
InitRag ==
    /\ mode = "rag" /\ store = {} /\ c_cfg = DefaultChunkerConfig
    /\ api_key \in BOOLEAN /\ batch_size = MaxBatch
    /\ \E n \in 0..MaxIndex : \E ids \in [1..n -> ChunkIds \cup {UnknownId, NullSourceId}] :
           /\ index = [i \in 1..n |-> EmbeddingOf(ids[i])]
           /\ chunk_metadata = MetaOf(ids)
    /\ InitCalls

\* generate_response calls of one caller, some made by batch_summarize_topics.
NextRag ==
    \/ \E q \in QueryVectors, top_k \in 1..MaxK, thr \in Thresholds :
           GenerateResponseCall(q, top_k, thr)
    \/ GenerateEmbedQuery
    \/ GenerateRetrievalRaises
    \/ GenerateSearch
    \/ GenerateCallOpenAI
    \/ \E outcome \in {"ok", "raises"} : GenerateOpenAIDone(outcome)
    \/ GenerateFallback
    \/ GenerateExcept
    \/ BatchTopicError
    \/ GenerateReturn

SpecRag == InitRag /\ [][NextRag]_vars

\* The steps generate_response and its callers take by themselves, once the
\* call is made: everything but the completion of the backend call, which is
\* the backend's to make (lines 147-155 pass no timeout).
RagLocalStep ==
    \/ GenerateEmbedQuery
    \/ GenerateRetrievalRaises
    \/ GenerateSearch
    \/ GenerateCallOpenAI
    \/ GenerateFallback
    \/ GenerateExcept
    \/ BatchTopicError
    \/ GenerateReturn

\* generate_response under a scheduler that lets every started call run on.
SpecRagLive == InitRag /\ [][NextRag]_vars /\ WF_vars(RagLocalStep)

\* An empty embeddings table.
InitTable ==
    /\ mode = "table" /\ store = {} /\ c_cfg = DefaultChunkerConfig /\ InitCommon

\* Calls on the embeddings table: batches of 1..MaxBatch pairs.
NextTable ==
    \/ \E n \in 1..MaxBatch : \E ids \in [1..n -> ChunkIds], embs \in [1..n -> TableVectors] :
           \/ StoreEmbeddingsBatchCall(ids, embs)
           \/ StoreEmbeddingsBatchRaises(ids, embs)
    \/ \E id \in ChunkIds : GetEmbeddingCall(id)
    \/ Tick

SpecTable == InitTable /\ [][NextTable]_vars

\* An EmbeddingGenerator with a batch_size of 1..MaxBatch + 1 (one more than any
\* batch the other specifications store), no chunk embedded.
InitEmbed ==
    /\ mode = "embed" /\ store = {} /\ c_cfg = DefaultChunkerConfig
    /\ index = <<>> /\ chunk_metadata = <<>> /\ api_key = FALSE
    /\ batch_size \in 1..(MaxBatch + 1)
    /\ InitCalls

\* Runs of the embedding job, one after the other.
NextEmbed ==
    \/ EmbedCall
    \/ \E outcome \in {"ok", "encode_raises", "store_raises"} : EmbedBatch(outcome)
    \/ EmbedLoopEnd
    \/ EmbedReturn
    \/ Tick

SpecEmbed == InitEmbed /\ [][NextEmbed]_vars

\* Chunking runs of one TextChunker.
NextChunk ==
    \/ \E text \in Texts : ChunkCall(text, "A")
    \/ ChunkTurn
    \/ ChunkTurnClosing
    \/ ChunkFinal
    \/ ChunkReturn
    \/ ChunkAgain

SpecChunk == InitChunk /\ [][NextChunk]_vars


\* ------------------------------------------------------------------- claims
FracLeq(a, b) == ~FracLess(b, a)

IsPrefix(p, s) == Len(p) <= Len(s) /\ SubSeq(s, 1, Len(p)) = p

SearchReturned == r_pc = "returned" /\ r_op = "search" /\ r_ret = "ok"

FiltersReturned == r_pc = "returned" /\ r_op = "filters" /\ r_ret = "ok"

\* C1: after every build_index_from_database or add_new_embeddings call of a
\* sequentially used FAISSManager has returned or raised, the index holds as
\* many vectors as chunk_metadata has entries.
C1_CountEqualsMetadataAfterWrite ==
    (mode = "seq" /\ w_pc = "returned") => Len(index) = Len(chunk_metadata)

\* C2: while a build or add runs concurrently with search_similar, the search
\* never reads in a state where the index's vector count and the length of
\* chunk_metadata differ (no exception involved).
C2_ReaderSeesEqualLengths ==
    (mode = "conc" /\ ReaderActive /\ faults = 0) => Len(index) = Len(chunk_metadata)

\* C3: a search_similar call that overlapped build_index_from_database (and
\* nothing else) returns what search_similar returns on one complete
\* (index, metadata) pair: the pair before the build or the pair it builds.
C3_SearchSeesOneSnapshot ==
    (mode = "conc" /\ SearchReturned /\ r_overlap = {"build"} /\ faults = 0)
        => \E S \in r_snaps :
               r_results = SearchSimilar(S.index, S.meta, r_args.q, r_args.k,
                                         r_args.score_threshold)

\* C4: build_index_from_database with no embedding in the store returns 0 and
\* leaves the index with 0 vectors and empty metadata, whatever it held before
\* (no exception involved).
C4_EmptyBuildLeavesEmptyIndex ==
    (mode = "seq" /\ faults = 0
     /\ w_pc = "returned" /\ w_op = "build" /\ w_ret.outcome = "empty")
        => (w_ret.value = 0 /\ Len(index) = 0 /\ chunk_metadata = <<>>)

\* C5: search_similar returns at most min(k, count) results, in non-increasing
\* similarity_score order, none with a similarity_score below score_threshold.
C5_SearchBoundedSortedAboveThreshold ==
    (mode \in {"seq", "search"} /\ SearchReturned) =>
        /\ Len(r_results) <= Min(r_args.k, Len(index))
        /\ \A i, j \in 1..Len(r_results) :
               i < j => FracLeq(r_results[j].similarity_score, r_results[i].similarity_score)
        /\ \A i \in 1..Len(r_results) :
               r_args.score_threshold.set =>
                   FracLeq(r_args.score_threshold, r_results[i].similarity_score)

\* C5 witness: a search with a threshold over more vectors than k returned a result.
C5_Witness ==
    /\ mode \in {"seq", "search"} /\ SearchReturned
    /\ Len(index) = 2 /\ r_args.k = 1
    /\ r_args.score_threshold = Threshold(1, 2)
    /\ Len(r_results) = 1

\* C6: in every list search_similar or a retrieval returns, the element at
\* 0-based position p has rank p + 1, also when the threshold removed candidates.
C6_RanksArePositions ==
    (mode \in {"seq", "search"} /\ r_pc = "returned" /\ r_ret = "ok") =>
        \A p \in 1..Len(r_results) : r_results[p].rank = (p - 1) + 1

\* C6 witness: the threshold removed one of two candidates and one was returned.
C6_Witness ==
    /\ mode \in {"seq", "search"} /\ SearchReturned
    /\ Len(index) = 2 /\ r_args.k = 2
    /\ r_args.score_threshold = Threshold(1, 2)
    /\ Len(r_results) = 1
    /\ r_results[1].rank = 1

\* C7: retrieve_by_filters returns at most top_k documents, each among the top
\* 2 * top_k hits, each with a source containing source_filter and a
\* published_at containing date_filter, case-insensitively (no exception
\* involved).
C7_FilteredRetrievalMatchesFilters ==
    (mode = "seq" /\ faults = 0 /\ FiltersReturned) =>
        /\ Len(r_results) <= r_args.top_k
        /\ \A i \in 1..Len(r_results) :
               /\ r_args.source_filter # <<>> =>
                      Contains(Lower(r_args.source_filter), Lower(r_results[i].source))
               /\ r_args.date_filter # <<>> =>
                      Contains(Lower(r_args.date_filter), Lower(r_results[i].published_at))
               /\ \E h \in Range(AllResults(index, chunk_metadata, r_args.q, r_args.top_k)) :
                      Get(h, "chunk_id", -1) = r_results[i].chunk_id

\* C8: every chunk of a chunking run has content of at least min_chunk_size
\* characters, whether closed inside the text or at its end.
C8_ChunksAtLeastMinSize ==
    mode = "chunk" =>
        \A i \in 1..Len(c_chunks) : Len(c_chunks[i].content) >= c_cfg.min_chunk_size

RECURSIVE MaxLen(_)
MaxLen(sentences) ==
    IF sentences = <<>> THEN 0
    ELSE LET rest == MaxLen(Tail(sentences))
         IN  IF Len(Head(sentences)) >= rest THEN Len(Head(sentences)) ELSE rest

\* C9: every chunk's content is at most chunk_size plus one sentence of the
\* text long, and once a chunk has been closed the running buffer is the
\* overlap sentences plus the sentences added since.
C9_ChunkLengthBounded ==
    mode = "chunk" =>
        /\ \A i \in 1..Len(c_chunks) :
               Len(c_chunks[i].content) <= c_cfg.chunk_size + MaxLen(c_sentences)
        /\ c_pc \in {"loop", "final"} =>
               c_current_chunk = Join(c_current_sentences, <<" ">>)

\* C10: the chunk that follows a chunk closed inside the text begins with the
\* overlap sentences taken from that chunk's tail, then the next new sentence.
C10_NextChunkStartsWithOverlap ==
    mode = "chunk" =>
        \A i \in 1..Len(c_closes) :
            i + 1 <= Len(c_chunks) =>
                IsPrefix(Join(Append(c_closes[i].overlap, c_closes[i].next), <<" ">>),
                         c_chunks[i + 1].content)

FracEq(a, b) == a.num * b.den = b.num * a.den

GenerateReturned == mode = "rag" /\ g_pc = "returned"

\* C11: with no api_key and at least one retrieved document, generate_response
\* returns the extractive fallback answer with confidence_score exactly 0.5.
C11_AbsentBackendGivesHalf ==
    (GenerateReturned /\ g_backend = "absent" /\ g_retrieval.retrieved_documents # <<>>)
        => /\ g_response.answer = FallbackResponse(g_retrieval.retrieved_documents)
           /\ FracEq(g_response.confidence_score, FracOf(1, 2))

\* C12: when the backend call raised, generate_response does not raise: it
\* returns the fallback answer with confidence_score 0.5 and the retrieval's
\* sources and retrieved_documents.
C12_BackendErrorGivesFallback ==
    (mode = "rag" /\ g_backend = "raised" /\ g_pc \in {"returned", "raised"})
        => /\ g_pc = "returned"
           /\ g_response.answer = FallbackResponse(g_retrieval.retrieved_documents)
           /\ FracEq(g_response.confidence_score, FracOf(1, 2))
           /\ g_response.sources = g_retrieval.sources
           /\ g_response.retrieved_documents = g_retrieval.retrieved_documents

\* C13: whatever its steps do (the retrieval raising, the backend raising, the
\* fallback answer failing), generate_response never ends by raising.
C13_GenerateNeverRaises ==
    mode = "rag" => g_pc # "raised"

\* C14: no row of the embeddings table holds an embedding whose byte length
\* differs from embedding_dim * 4: a vector of another length is not stored.
C14_NoRowOfWrongLength ==
    mode = "table" =>
        \A r \in store : Len(r.embedding) = r.embedding_dim * BytesPerFloat

\* C15: load_index leaves the manager with an empty index and empty
\* chunk_metadata whenever the index file or the metadata file is missing or
\* unreadable, whatever the manager held before.
C15_FailedLoadLeavesEmptyIndex ==
    (mode = "seq" /\ w_pc = "returned" /\ w_op = "load"
     /\ w_ret.outcome \in {"missing", "unreadable"})
        => (Len(index) = 0 /\ chunk_metadata = <<>>)

RECURSIVE FirstAppearance(_, _)
\* the elements of a sequence once each, in the order of their first appearance
FirstAppearance(lines, seen) ==
    IF lines = <<>> THEN <<>>
    ELSE IF Head(lines) \in seen THEN FirstAppearance(Tail(lines), seen)
    ELSE <<Head(lines)>> \o FirstAppearance(Tail(lines), seen \cup {Head(lines)})

SourceLinesOf(docs) ==
    [i \in 1..Len(docs) |-> Str(docs[i].source) \o <<" ", "-", " ">> \o Str(docs[i].article_title)]

\* C16: retrieve_relevant_documents returns sources as the duplicate-free list
\* of "source - title" strings in the order of their first appearance in the
\* ranked results.
C16_SourcesInRankOrder ==
    (mode = "rag" /\ g_pc \in {"generate", "calling", "except", "returned"}
     /\ g_retrieval.retrieved_documents # <<>>)
        => g_retrieval.sources
             = FirstAppearance(SourceLinesOf(g_retrieval.retrieved_documents), {})

\* The batch of a run's unprocessed_chunks that position p (from 1) falls in,
\* counted from 1.
BatchNoOf(p) == ((p - 1) \div batch_size) + 1

\* C17: when generate_embeddings_for_unprocessed_chunks returns, it has attempted
\* every batch of the unprocessed chunks exactly once and in order, whichever
\* of them raised; the count it returns is the number of chunks in the batches
\* that did not raise; each chunk of a batch that raised has no row in the
\* embeddings table and each chunk of a batch that did not raise has one.
C17_FailedBatchesSkippedAndNotCounted ==
    (mode = "embed" /\ e_pc = "returned")
        => /\ Len(e_log) = (Len(e_chunks) + batch_size - 1) \div batch_size
           /\ \A j \in 1..Len(e_log) : e_log[j].start = (j - 1) * batch_size
           /\ e_total = Cardinality({p \in 1..Len(e_chunks) : ~e_log[BatchNoOf(p)].raised})
           /\ \A p \in 1..Len(e_chunks) :
                 (e_chunks[p] \in StoredIds(store)) <=> ~e_log[BatchNoOf(p)].raised

\* C17 witness: a run has returned in which a batch raised and a later batch
\* was stored.
C17_Witness ==
    /\ mode = "embed" /\ e_pc = "returned"
    /\ \E j, k \in 1..Len(e_log) : j < k /\ e_log[j].raised /\ ~e_log[k].raised
    /\ e_total > 0

\* a fraction lies in [0, 1]
InUnitInterval(a) == FracLeq(FracOf(0, 1), a) /\ FracLeq(a, FracOf(1, 1))

\* m is the mean similarity_score of docs
IsMeanSimilarity(m, docs) ==
    docs # <<>> /\ FracEq(FracOf(m.num * Len(docs), m.den), SumSimilarity(docs, 1))

\* C18: every response generate_response returns, and the error entry
\* batch_summarize_topics makes for a topic whose call raised, has a
\* confidence_score in [0, 1]; when the backend answered, the score is
\* min(2 * avg_similarity, 1), avg_similarity being the mean similarity_score
\* of the retrieved documents.
C18_ConfidenceInUnitInterval ==
    (mode = "rag" /\ g_pc \in {"returned", "topic_done"})
        => /\ InUnitInterval(g_response.confidence_score)
           /\ (g_pc = "returned" /\ g_backend = "ok")
                 => /\ IsMeanSimilarity(g_retrieval.avg_similarity,
                                        g_retrieval.retrieved_documents)
                    /\ IF FracLess(FracOf(1, 2), g_retrieval.avg_similarity)
                       THEN FracEq(g_response.confidence_score, FracOf(1, 1))
                       ELSE FracEq(g_response.confidence_score,
                                   FracOf(2 * g_retrieval.avg_similarity.num,
                                          g_retrieval.avg_similarity.den))

\* C18 witness: the backend answered over two documents whose mean similarity
\* lies strictly between 1/2 and 1, so that the score is the clamped 1.
C18_Witness ==
    /\ mode = "rag" /\ g_pc = "returned" /\ g_backend = "ok"
    /\ Len(g_retrieval.retrieved_documents) = 2
    /\ FracLess(FracOf(1, 2), g_retrieval.avg_similarity)
    /\ FracLess(g_retrieval.avg_similarity, FracOf(1, 1))
    /\ FracEq(g_response.confidence_score, FracOf(1, 1))

\* The retrieval of the current generate_response call has returned, and its
\* search found nothing: the index is empty or every candidate is below the
\* call's score_threshold.
SearchYieldedNothing ==
    /\ mode = "rag" /\ g_pc # "idle" /\ g_retrieval # EmptyDict
    /\ \/ index = <<>>
       \/ \A i \in 1..Len(index) :
             BelowThreshold(Similarity(L2Sq(index[i], g_args.query)), g_args.score_threshold)

\* C19: when the search yields no results, retrieve_relevant_documents returns
\* total_results 0, no sources and an empty context_text, and generate_response
\* returns the canned no-relevant-documents answer with no sources, no
\* retrieved_documents and confidence_score 0, the backend never called.
C19_NoResultsGivesCannedAnswer ==
    SearchYieldedNothing
        => /\ g_retrieval.total_results = 0
           /\ g_retrieval.sources = <<>>
           /\ g_retrieval.context_text = <<>>
           /\ g_retrieval.retrieved_documents = <<>>
           /\ g_pc = "returned"
           /\ g_backend = "none"
           /\ g_response.answer = [kind |-> "no_relevant_documents"]
           /\ g_response.sources = <<>>
           /\ g_response.retrieved_documents = <<>>
           /\ FracEq(g_response.confidence_score, FracOf(0, 1))
           /\ g_response.query = g_args.query

\* C19 witness: a call over a non-empty index whose every candidate was below
\* the score_threshold has returned.
C19_Witness ==
    /\ SearchYieldedNothing
    /\ index # <<>>
    /\ g_pc = "returned"

\* the vector as float32
AsFloat32Vector(v) == [i \in 1..Len(v) |-> AsFloat32(v[i])]

\* the columns of the embeddings table that _store_embeddings_batch names
NamedColumns(st) ==
    {[chunk_id |-> r.chunk_id, embedding |-> r.embedding,
      embedding_dim |-> r.embedding_dim, model_name |-> r.model_name] : r \in st}

OneRowPerChunkId == \A r1, r2 \in store : r1.chunk_id = r2.chunk_id => r1 = r2

\* this step is a _store_embeddings_batch call with the arguments of the call
\* before it
RepeatsUpsert ==
    /\ mode = "table"
    /\ t_call # EmptyDict /\ t_call' # EmptyDict
    /\ t_call'.chunk_ids = t_call.chunk_ids /\ t_call'.embeddings = t_call.embeddings
    /\ store' # store \/ t_call'.repeated

GetReturnsLastStored ==
    (mode = "table" /\ t_got # EmptyDict)
        => t_got.value = IF t_got.chunk_id \in DOMAIN t_last
                         THEN AsFloat32Vector(t_last[t_got.chunk_id])
                         ELSE None

\* C20 as stated: the table holds at most one row per chunk_id, a
\* _store_embeddings_batch call that repeats the one before it leaves the table
\* as it was, and get_embedding_by_chunk_id returns the float32 of the vector
\* last stored for the chunk_id, None if there is none.
C20_RepeatedUpsertLeavesTable ==
    /\ [](mode = "table" => OneRowPerChunkId)
    /\ [][RepeatsUpsert => store' = store]_vars
    /\ []GetReturnsLastStored

\* C20 amended: the table holds at most one row per chunk_id, a
\* _store_embeddings_batch call that repeats the one before it leaves the
\* chunk_id, embedding, embedding_dim and model_name of every row as they were
\* (created_at of the rows it writes becomes the time of the call), and
\* get_embedding_by_chunk_id returns the float32 of the vector last stored for
\* the chunk_id, None if there is none.
C20_RepeatedUpsertLeavesNamedColumns ==
    /\ [](mode = "table" => OneRowPerChunkId)
    /\ [][RepeatsUpsert => (/\ NamedColumns(store') = NamedColumns(store)
                           /\ \A r \in store' \ store : r.created_at = clock)]_vars
    /\ []GetReturnsLastStored

\* C20 witness: an upsert was repeated at a later time than the first and
\* rewrote a row, and a get of that chunk_id has since returned the float32 of
\* an inexact number.
C20_Witness ==
    /\ mode = "table" /\ t_call # EmptyDict /\ t_call.repeated
    /\ t_got # EmptyDict
    /\ \E i \in 1..Len(t_call.chunk_ids) : t_call.chunk_ids[i] = t_got.chunk_id
    /\ \E r \in store : r.chunk_id = t_got.chunk_id /\ r.created_at > 0
    /\ t_got.value = <<InexactValue + 1, 1>>

\* the chunk_ids and contents of a list of chunks, in order
IdsAndContents(chunks) ==
    [i \in 1..Len(chunks) |-> <<chunks[i].chunk_id, chunks[i].content>>]

\* C21: in a chunking run the i-th chunk appended (from 0) has chunk_index i
\* and chunk_id "{article_id}_chunk_{i}", so that the chunk_ids are pairwise
\* distinct; a second run over the same text and article_id returns the same
\* chunk_ids and contents in the same order.
C21_ChunkIndexCountsFromZero ==
    mode = "chunk" =>
        /\ \A i \in 1..Len(c_chunks) :
               /\ c_chunks[i].chunk_index = i - 1
               /\ c_chunks[i].chunk_id = <<c_article_id, "_chunk_", i - 1>>
        /\ \A i, j \in 1..Len(c_chunks) :
               c_chunks[i].chunk_id = c_chunks[j].chunk_id => i = j
        /\ (c_pc = "done" /\ c_first.ran)
               => IdsAndContents(c_chunks) = IdsAndContents(c_first.chunks)

\* C21 witness: a second run over the same text has returned three chunks.
C21_Witness ==
    /\ mode = "chunk" /\ c_pc = "done" /\ c_first.ran
    /\ Len(c_chunks) >= 3

\* the chunk_ids, ranks and similarity scores of a result list, in order
HitsOf(results) ==
    [i \in 1..Len(results) |->
        <<Get(results[i], "chunk_id", -1), results[i].rank, results[i].similarity_score>>]

C23_PendingBackendCallEnds ==
    (mode = "rag" /\ g_pc = "calling") ~> (g_pc \in {"returned", "except"})

\* the stage sequences of a generate_response call that returned a response
CompleteStageSequences ==
    {<<"embed", "search", "no_results", "responded">>,
     <<"embed", "search", "context", "generate", "success", "responded">>,
     <<"embed", "search", "context", "generate", "fallback", "responded">>,
     <<"embed", "search", "context", "fallback", "responded">>}

\* the stage sequences of a call that raised out of the fallback: the
\* fallback of the try raised and the except branch's raised again, or the
\* backend raised and the except branch's fallback raised
RaisedStageSequences ==
    {<<"embed", "search", "context", "fallback", "fallback">>,
     <<"embed", "search", "context", "generate", "fallback">>}

\* C24: a generate_response call passes its stages in order: the query is
\* embedded, the index searched, then either the no-results answer, or the
\* context, the generation, its success or the fallback, and the response. The
\* backend is called at most once per call, and only after the search returned
\* at least one document.
C24_StagesInOrder ==
    mode = "rag" =>
        /\ \E full \in CompleteStageSequences \cup RaisedStageSequences :
               IsPrefix(g_stages, full)
        /\ g_pc = "returned" => g_stages \in CompleteStageSequences
        /\ Cardinality({i \in 1..Len(g_stages) : g_stages[i] = "generate"}) <= 1
        /\ (\E i \in 1..Len(g_stages) : g_stages[i] = "generate")
               => Len(g_retrieval.retrieved_documents) >= 1
        /\ (g_pc = "calling") => (g_stages # <<>> /\ g_stages[Len(g_stages)] = "generate")

\* C24 witness: a call has returned the fallback answer after its one backend
\* call raised.
C24_Witness ==
    /\ mode = "rag" /\ g_pc = "returned" /\ g_backend = "raised"
    /\ g_stages = <<"embed", "search", "context", "generate", "fallback", "responded">>

\* C25: when build_index_from_database has returned its count, the chunk_ids
\* it read are in ascending order and, position by position, the index holds
\* the vector read for the chunk_id and chunk_metadata an entry with that
\* chunk_id; when add_new_embeddings has returned, the same holds at the
\* positions it appended, for the vectors and chunk_ids it was given.
C25_PositionsCorrespond ==
    (mode = "seq" /\ w_pc = "returned" /\ w_ret.outcome = "ok")
        => /\ w_op = "build" =>
                /\ \A i, j \in 1..Len(w_chunk_ids) : i < j => w_chunk_ids[i] < w_chunk_ids[j]
                /\ Len(index) = Len(w_chunk_ids)
                /\ Len(chunk_metadata) = Len(w_chunk_ids)
                /\ \A i \in 1..Len(w_chunk_ids) :
                      /\ index[i] = w_embeddings[i]
                      /\ chunk_metadata[i].chunk_id = w_chunk_ids[i]
           /\ w_op = "add" =>
                LET base == Len(index) - Len(w_chunk_ids)
                IN  \A j \in 1..Len(w_chunk_ids) :
                      /\ index[base + j] = w_embeddings[j]
                      /\ base + j <= Len(chunk_metadata)
                      /\ chunk_metadata[base + j].chunk_id = w_chunk_ids[j]

\* C26: when a build_index_from_database call and an add_new_embeddings call
\* made by two threads have both returned, index and chunk_metadata are what
\* the two calls leave when run one after the other, in one order or the
\* other, and the index holds as many vectors as chunk_metadata has entries.
C26_WritersSerialized ==
    (mode = "writers" /\ w_pc = "returned" /\ a_pc = "returned")
        => LET built == Pair(GetAllEmbeddings(store), MetaOf(GetAllChunkIds(store)))
           IN  /\ Pair(index, chunk_metadata)
                     \in {built,
                          Pair(built.index \o a_embeddings, built.meta \o MetaOf(a_chunk_ids))}
               /\ Len(index) = Len(chunk_metadata)

DistinctIds(ids) == \A i, j \in 1..Len(ids) : ids[i] = ids[j] => i = j

\* C28: after any sequence of build_index_from_database and
\* add_new_embeddings calls, each given pairwise different chunk_ids, every
\* chunk_id occupies at most one position of chunk_metadata.
C28_OnePositionPerChunkId ==
    (mode = "seq" /\ w_pc = "returned" /\ w_op \in {"build", "add"}
        /\ w_ret.outcome = "ok" /\ DistinctIds(w_chunk_ids))
        => \A i, j \in 1..Len(chunk_metadata) :
              chunk_metadata[i].chunk_id = chunk_metadata[j].chunk_id => i = j

\* The chunk_ids process_article_text gives the chunks of an article.
ChunkIdsOfArticle(a) ==
    {<<a, "_chunk_", i>> : i \in 0..(ChunksOfText(articles[a].content) - 1)}

\* C29: in every state of runs of process_unprocessed_articles whose steps
\* may fail, an article marked processed yields chunks and has a committed
\* row for each of them (at least one); while store_chunks is committed and
\* the article not yet marked, the rows are there; and a store_chunks of an
\* article that had rows leaves the number of rows as it was, one per
\* chunk_id.
C29_ProcessedHasCommittedChunks ==
    mode = "process" =>
        /\ \A a \in ArticleIds :
               articles[a].processed =>
                   /\ ChunksOfText(articles[a].content) >= 1
                   /\ RowsOfArticle(text_chunks, a) # {}
                   /\ ChunkIdsOfArticle(a) \subseteq {r.chunk_id : r \in text_chunks}
        /\ p_pc = "mark" =>
               ChunkIdsOfArticle(p_articles[p_i]) \subseteq {r.chunk_id : r \in text_chunks}
        /\ (p_pc = "mark" /\ p_stored.again) =>
               Cardinality(text_chunks) = p_stored.rows_before
        /\ \A r1, r2 \in text_chunks : r1.chunk_id = r2.chunk_id => r1 = r2

\* C29 witness: an article was chunked and stored a second time, at a later
\* timestamp, after the first run failed to mark it, and is now marked
\* processed, while another article that yields no chunks stays unmarked.
C29_Witness ==
    /\ mode = "process" /\ p_pc = "loop" /\ p_stored.again
    /\ articles[p_stored.article_id].processed
    /\ \E r \in RowsOfArticle(text_chunks, p_stored.article_id) : r.created_at > 0
    /\ \E a \in ArticleIds : articles[a].content = "short" /\ ~articles[a].processed

\* C30: every chunk chunk_by_sentences has produced for a text has
\* 0 <= start_pos <= end_pos <= len(text), and end_pos - start_pos is its
\* char_count, also where the chunk follows overlaps.
C30_PositionsWithinText ==
    mode = "chunk" =>
        \A i \in 1..Len(c_chunks) :
            /\ 0 <= c_chunks[i].start_pos
            /\ c_chunks[i].start_pos <= c_chunks[i].end_pos
            /\ c_chunks[i].end_pos <= Len(c_text)
            /\ c_chunks[i].end_pos - c_chunks[i].start_pos = c_chunks[i].metadata.char_count
====
